---- MODULE Spec2Model ----
(***************************************************************************)
(* Orchestration core of the SmolVLM haiku application: the two model     *)
(* services (SmolVLMService, QwenHaikuService), the App component's       *)
(* initialisation effect, its capture scheduler (initial timer, auto      *)
(* capture timer, countdown interval, capture retry timers) and the       *)
(* processFrame pipeline with the bounded haiku history.                   *)
(*                                                                         *)
(* Time is counted in whole seconds.  A pending timer is the number of    *)
(* seconds left before it is due, NoTimer when it is not armed.  A timer  *)
(* that is due fires before time advances.  Every handler runs to its     *)
(* next await as one step; the React render that its state updates cause  *)
(* and the effects of that render are part of the same step.              *)
(***************************************************************************)
EXTENDS Integers, Sequences, FiniteSets, TLC

\* ---------------------------------------------------------------- constants
CAPTURE_INTERVAL == 10
MAX_HAIKU_HISTORY == 10
INITIAL_DELAY == 3
RETRY_DELAY == 2
COUNTDOWN_PERIOD == 1
NoTimer == -1

\* ------------------------------------------------------------------- bounds
MaxCycles == 3         \* processFrame invocations in one run of Spec
MaxLongCycles == 11    \* processFrame invocations in one run of SpecLong
MaxAnswerCycles == 3   \* processFrame invocations in one run of SpecAnswers
MaxLines == 4          \* lines of a model answer in SpecText
MaxFaults == 1         \* vision calls that raise or fall back in one run
MaxRetryTimers == 2    \* capture-retry timers pending at once
MaxInitCalls == 3      \* initialize calls per service by a direct caller
MaxClockCycles == 2     \* processFrame invocations in one run of SpecClock
MaxDate == 2           \* readings of the clock, in milliseconds, in SpecClock
MaxWords == 3          \* words of a description in SpecFallback

\* ------------------------------------------------------------ string values
ErrCapture == "Failed to capture frame - camera may not be ready"
ErrRetry == "Camera capture failed after retry"
ErrStillInit == "Camera is still initializing, please wait..."
ErrVisionFallback == "Using fallback - SmolVLM may not be working properly"
ErrQwen == "Haiku generator fallback in use"
ErrPipeline == "Failed to generate haiku"

Services == {"smolVLMService", "qwenHaikuService"}

\* ------------------------------------------------------------------ strings
\* A JavaScript string is a sequence of tokens.  A token is a run of
\* characters that the code never looks inside: a white-space character, a
\* word or phrase of letters and haiku punctuation, or a marker that one of
\* the regular expressions of the services matches as a whole.  A text that
\* the code searches for is a token of its own.
WhiteSpace == {" ", "\n", "\r", "\t"}

\* String.prototype.trim
RECURSIVE trimStart(_)
trimStart(s) ==
  IF s # <<>> /\ Head(s) \in WhiteSpace THEN trimStart(Tail(s)) ELSE s

RECURSIVE trimEnd(_)
trimEnd(s) ==
  IF s # <<>> /\ s[Len(s)] \in WhiteSpace THEN trimEnd(SubSeq(s, 1, Len(s) - 1)) ELSE s

trim(s) == trimEnd(trimStart(s))

\* String.prototype.split(sep) for a one-token separator
RECURSIVE split(_, _)
split(s, sep) ==
  IF \E i \in 1..Len(s) : s[i] = sep
  THEN LET i == CHOOSE k \in 1..Len(s) : s[k] = sep /\ \A j \in 1..(k - 1) : s[j] # sep
       IN <<SubSeq(s, 1, i - 1)>> \o split(SubSeq(s, i + 1, Len(s)), sep)
  ELSE <<s>>

\* Array.prototype.join(sep)
RECURSIVE join(_, _)
join(lines, sep) ==
  IF lines = <<>> THEN <<>>
  ELSE IF Len(lines) = 1 THEN lines[1]
  ELSE lines[1] \o <<sep>> \o join(Tail(lines), sep)

\* String.prototype.length: the number of characters
RECURSIVE length(_)
length(s) == IF s = <<>> THEN 0 ELSE Len(Head(s)) + length(Tail(s))

\* String.prototype.toLowerCase, for the capitalised tokens of the model
toLowerCase(s) ==
  [i \in 1..Len(s) |->
     CASE s[i] = "Night" -> "night"
       [] s[i] = "Morning" -> "morning"
       [] s[i] = "Okay," -> "okay,"
       [] s[i] = "Let me" -> "let me"
       [] s[i] = "Haiku" -> "haiku"
       [] s[i] = "Man" -> "man"
       [] s[i] = "Damn" -> "damn"
       [] OTHER -> s[i]]

\* String.prototype.includes(text), text being one token
includes(s, text) == \E i \in 1..Len(s) : s[i] = text

\* the lines of a string that are left after trimming each and dropping the empty ones
NonEmptyLines(s) ==
  LET lines == split(s, "\n")
  IN SelectSeq([i \in 1..Len(lines) |-> trim(lines[i])], LAMBDA line : line # <<>>)

\* --------------------------------------------------------------------- App
EmergencyHaiku ==
  <<"Silent pixels wait", "\n", "WebGPU dreams unfulfilled", "\n", "Refresh brings new hope">>

\* ----------------------------------------------------------- SmolVLMService
SMOLVLM_FALLBACK_DESCRIPTION == <<"A moment captured in stillness">>

\* the clean-up of the decoded response that both versions of the service share:
\* keep what follows the last "Assistant:", then what precedes the first "User:"
removeChatFormatting(generatedText) ==
  LET afterAssistant ==
        IF includes(generatedText, "Assistant:")
        THEN LET parts == split(generatedText, "Assistant:")
             IN IF trim(parts[Len(parts)]) # <<>> THEN trim(parts[Len(parts)])
                ELSE generatedText
        ELSE generatedText
  IN IF includes(afterAssistant, "User:")
     THEN trim(split(afterAssistant, "User:")[1])
     ELSE afterAssistant

\* the replacement of every run of white space by one blank
RECURSIVE normalizeWhiteSpace(_)
normalizeWhiteSpace(s) ==
  IF s = <<>> THEN <<>>
  ELSE IF Head(s) \in WhiteSpace
  THEN <<" ">> \o normalizeWhiteSpace(trimStart(s))
  ELSE <<Head(s)>> \o normalizeWhiteSpace(Tail(s))

\* the words that sanitizeDescription rejects
disallowed == {"bitch", "fuck", "shit", "damn", "bastard"}

\* a sanitizeDescription that searches the text as it is written
sanitizeDescriptionM1(rawDescription) ==
  LET normalized == trim(normalizeWhiteSpace(rawDescription))
  IN IF \E word \in disallowed : includes(normalized, word)
     THEN <<>>
     ELSE normalized

\* sanitizeDescription(rawDescription); its null is the empty string
sanitizeDescription(rawDescription) ==
  LET normalized == trim(normalizeWhiteSpace(rawDescription))
  IN IF \E word \in disallowed : includes(toLowerCase(normalized), word)
     THEN <<>>
     ELSE normalized

\* extractDescription(text); its null is the empty string
extractDescription(text) ==
  LET all == split(text, "\n")
      lines == SelectSeq([i \in 1..Len(all) |-> trim(all[i])],
                         LAMBDA line : length(line) > 10)
  IN IF Len(lines) > 0 THEN sanitizeDescription(join(lines, " ")) ELSE <<>>

\* analyzeImage(imageDataUrl) of a service whose handles are loaded: loading
\* the image, the processor or the model throws, or the model's answer
\* decodes to generatedText
analyzeImageM1(throws, generatedText) ==
  [description |-> IF throws THEN SMOLVLM_FALLBACK_DESCRIPTION
                   ELSE extractDescription(removeChatFormatting(generatedText))]
analyzeImage(throws, generatedText) ==
  LET description == extractDescription(removeChatFormatting(generatedText))
  IN [description |-> IF ~throws /\ description # <<>> THEN description
                      ELSE SMOLVLM_FALLBACK_DESCRIPTION]

\* the canned haikus of the version of the service that writes the haiku itself
ManWallHaiku ==
  <<"Man sits quietly", "\n", "Behind walls, life continues", "\n", "Moment captured here">>
PersonHaiku ==
  <<"Person in the frame", "\n", "Stillness speaks without words", "\n",
    "Time pauses to watch">>
GreenHaiku ==
  <<"Green spaces unfold", "\n", "Nature meets technology", "\n", "Balance in pixels">>
FocusHaiku ==
  <<"Focused attention", "\n", "In this digital moment", "\n", "Presence captured now">>
NightTimeHaiku ==
  <<"Night's quiet moment", "\n", "Camera captures stillness", "\n", "Peace in pixels found">>
MorningTimeHaiku ==
  <<"Morning light appears", "\n", "Through the lens, life awakening", "\n",
    "New day beginning">>
AfternoonHaiku ==
  <<"Afternoon unfolds", "\n", "Moments frozen in the frame", "\n",
    "Time stands still for us">>
EveningHaiku ==
  <<"Evening shadows fall", "\n", "Capturing the day's last light", "\n",
    "Memories preserved">>

\* createFallbackHaiku() at the given hour of the day
createTimeHaiku(hour) ==
  IF hour < 6 \/ hour > 20 THEN NightTimeHaiku
  ELSE IF hour < 12 THEN MorningTimeHaiku
  ELSE IF hour < 17 THEN AfternoonHaiku
  ELSE EveningHaiku

\* words.includes(word): the word stands between white space or the ends
hasWord(s, word) ==
  \E i \in 1..Len(s) :
    /\ s[i] = word
    /\ i = 1 \/ s[i - 1] \in WhiteSpace
    /\ i = Len(s) \/ s[i + 1] \in WhiteSpace

\* createHaikuFromDescription(description) at the given hour
createHaikuFromDescription(description, hour) ==
  LET lower == toLowerCase(description)
      hasMan == hasWord(lower, "man") \/ hasWord(lower, "person")
      hasWall == hasWord(lower, "wall") \/ hasWord(lower, "background")
  IN IF hasMan /\ hasWall THEN ManWallHaiku
     ELSE IF hasMan THEN PersonHaiku
     ELSE IF includes(description, "green") THEN GreenHaiku
     ELSE IF includes(description, "focus") THEN FocusHaiku
     ELSE createTimeHaiku(hour)

haikuKeywords == {"haiku", "poem", "verse"}

\* String.prototype.substring(0, n); a token is kept whole or dropped
RECURSIVE substring(_, _)
substring(s, n) ==
  IF s = <<>> \/ Len(Head(s)) > n THEN <<>>
  ELSE <<Head(s)>> \o substring(Tail(s), n - Len(Head(s)))

\* the split at every keyword, a colon after the keyword being part of the separator
RECURSIVE splitAtKeywords(_)
splitAtKeywords(s) ==
  IF \E i \in 1..Len(s) : toLowerCase(s)[i] \in haikuKeywords
  THEN LET i == CHOOSE k \in 1..Len(s) :
                   /\ toLowerCase(s)[k] \in haikuKeywords
                   /\ \A j \in 1..(k - 1) : toLowerCase(s)[j] \notin haikuKeywords
           next == IF i < Len(s) /\ s[i + 1] = ":" THEN i + 2 ELSE i + 1
       IN <<SubSeq(s, 1, i - 1)>> \o splitAtKeywords(SubSeq(s, next, Len(s)))
  ELSE <<s>>

\* the description and the haiku that the service reads out of the cleaned response
parseResponse(cleanResponse, hour) ==
  LET lines == SelectSeq(split(cleanResponse, "\n"), LAMBDA line : length(trim(line)) > 0)
      parts == splitAtKeywords(cleanResponse)
  IN IF \E keyword \in haikuKeywords : includes(toLowerCase(cleanResponse), keyword)
     THEN IF Len(parts) > 1
          THEN [description |-> trim(parts[1]),
                haiku |-> LET rows == split(trim(parts[2]), "\n")
                          IN join(SubSeq(rows, 1, IF Len(rows) < 3 THEN Len(rows) ELSE 3), "\n")]
          ELSE IF Len(lines) > 3
          THEN [description |-> join(SubSeq(lines, 1, Len(lines) - 3), " "),
                haiku |-> join(SubSeq(lines, Len(lines) - 2, Len(lines)), "\n")]
          ELSE [description |-> <<"A moment captured in time">>,
                haiku |-> join(lines, "\n")]
     ELSE IF Len(lines) = 3
     THEN [description |-> <<"A poetic moment">>, haiku |-> join(lines, "\n")]
     ELSE [description |-> substring(cleanResponse, 200),
           haiku |-> createHaikuFromDescription(substring(cleanResponse, 200), hour)]

FallbackDescription == <<"A moment captured through the lens">>

\* analyzeImageAndGenerateHaiku(imageDataUrl) of a service whose handles are
\* loaded, at the given hour: a step of the analysis throws, or the model's
\* answer decodes to generatedText
analyzeImageAndGenerateHaiku(throws, generatedText, hour) ==
  IF throws
  THEN [description |-> FallbackDescription, haiku |-> createTimeHaiku(hour)]
  ELSE parseResponse(removeChatFormatting(generatedText), hour)

\* --------------------------------------------------------- QwenHaikuService
NightHaiku ==
  <<"Moonlit silence falls", "\n", "Whispers drift through cool night air", "\n",
    "Starlight hums softly">>
MorningHaiku ==
  <<"Morning dew awakes", "\n", "Sunlight weaves through sleepy rooms", "\n",
    "Daybreak softly sighs">>
WaterHaiku ==
  <<"Ripples hush the shore", "\n", "Silver currents wander slow", "\n",
    "Water learns to sing">>
GenericHaiku ==
  <<"Silent pixels wait", "\n", "Cooling fans hum quietly", "\n", "Haikus bloom again">>

\* a createFallbackHaiku that looks for "morning" before "night"
createFallbackHaikuM1(description) ==
  IF includes(toLowerCase(description), "morning") THEN MorningHaiku
  ELSE IF includes(toLowerCase(description), "night") THEN NightHaiku
  ELSE IF includes(toLowerCase(description), "water") THEN WaterHaiku
  ELSE GenericHaiku

\* createFallbackHaiku(description)
createFallbackHaiku(description) ==
  IF includes(toLowerCase(description), "night") THEN NightHaiku
  ELSE IF includes(toLowerCase(description), "morning") THEN MorningHaiku
  ELSE IF includes(toLowerCase(description), "water") THEN WaterHaiku
  ELSE GenericHaiku

\* the tokens with a character outside the letters, white space and punctuation that cleanHaiku allows
DisallowedTokens == {"7", "1.", "*", "<think>", "</think>", "(fence)", "(emoji)"}

\* the test that cleanHaiku applies to each of the first three lines
ValidLineM1(line) == \A i \in 1..Len(line) : line[i] \notin DisallowedTokens
ValidLine(line) ==
  /\ \A i \in 1..Len(line) : line[i] \notin DisallowedTokens
  /\ length(line) > 2

\* cleanHaiku(text); its null is the empty string, which the caller's truthiness test treats alike
cleanHaiku(text) ==
  LET lines == NonEmptyLines(text)
  IN IF text # <<>> /\ Len(lines) >= 3
        /\ \A i \in 1..3 : ValidLine(lines[i])
     THEN join(SubSeq(lines, 1, 3), "\n")
     ELSE <<>>

\* the two replacements that drop a closed think block and then an unclosed one
RECURSIVE stripThink(_)
stripThink(s) ==
  IF ~includes(s, "<think>") THEN s
  ELSE LET i == CHOOSE k \in 1..Len(s) :
                   s[k] = "<think>" /\ \A j \in 1..(k - 1) : s[j] # "<think>"
           rest == SubSeq(s, i + 1, Len(s))
       IN IF includes(rest, "</think>")
          THEN LET j == CHOOSE k \in 1..Len(rest) :
                          rest[k] = "</think>" /\ \A m \in 1..(k - 1) : rest[m] # "</think>"
               IN SubSeq(s, 1, i - 1) \o stripThink(SubSeq(rest, j + 1, Len(rest)))
          ELSE SubSeq(s, 1, i - 1)

\* the replacement that drops a fenced code block
RECURSIVE stripFences(_)
stripFences(s) ==
  IF ~includes(s, "(fence)") THEN s
  ELSE LET i == CHOOSE k \in 1..Len(s) : s[k] = "(fence)" /\ \A j \in 1..(k - 1) : s[j] # "(fence)"
           rest == SubSeq(s, i + 1, Len(s))
       IN IF includes(rest, "(fence)")
          THEN LET j == CHOOSE k \in 1..Len(rest) :
                          rest[k] = "(fence)" /\ \A m \in 1..(k - 1) : rest[m] # "(fence)"
               IN SubSeq(s, 1, i - 1) \o stripFences(SubSeq(rest, j + 1, Len(rest)))
          ELSE s

\* the replacement that drops a leading line number, and the trim that follows it
stripLineNumber(line) ==
  IF line # <<>> /\ Head(line) = "1." THEN trim(Tail(line)) ELSE trim(line)

\* stripAuxiliaryContent(text) up to its test for reasoning: think blocks,
\* code fences, chat prefixes, emojis and line numbers are removed
removeAuxiliaryContent(text) ==
  LET noTags == trim(SelectSeq(stripFences(stripThink(text)),
                               LAMBDA t : t \notin {"Assistant:", "User:"}))
      noEmoji == trim(SelectSeq(noTags, LAMBDA t : t # "(emoji)"))
      lines == split(noEmoji, "\n")
  IN join([i \in 1..Len(lines) |-> stripLineNumber(lines[i])], "\n")

\* the test for reasoning in place of a haiku
hasReasoning(cleaned) ==
  includes(toLowerCase(cleaned), "okay,") \/ includes(toLowerCase(cleaned), "let me")

\* stripAuxiliaryContent(text)
stripAuxiliaryContent(text) ==
  IF hasReasoning(removeAuxiliaryContent(text)) THEN <<>>
  ELSE removeAuxiliaryContent(text)

\* description.trim() || 'a quiet unseen scene'
trimmedDescription(description) ==
  IF trim(description) # <<>> THEN trim(description) ELSE <<"a quiet unseen scene">>

\* a generateHaiku that returns what is left of the model's answer unvalidated
generateHaikuM1(description, throws, rawGenerated) ==
  IF ~throws /\ stripAuxiliaryContent(rawGenerated) # <<>>
  THEN stripAuxiliaryContent(rawGenerated)
  ELSE createFallbackHaiku(trimmedDescription(description))

\* generateHaiku(description) of a service whose handles are loaded: the model
\* call throws, or decodes to rawGenerated
generateHaiku(description, throws, rawGenerated) ==
  LET cleaned == cleanHaiku(stripAuxiliaryContent(rawGenerated))
  IN IF ~throws /\ cleaned # <<>>
     THEN cleaned
     ELSE createFallbackHaiku(trimmedDescription(description))

VARIABLES
  \* services: [processor (the tokenizer of qwenHaikuService), model, loading, initialized]
  svc,
  \* the initialize call of each service that is past the guard:
  \* [pc: "none" | "processor" | "model", cb: callback id]
  load,
  \* number of initialize calls made on each service (a call's serial names its callback)
  calls,
  \* the callbacks of the initialize calls made while the service was ready or loading
  late,
  \* hooks
  webGPU, cameraStatus, video,
  \* useCamera: the mounted flag of its effect, the promise of getUserMedia, and
  \* the tracks of the stream that it resolved with ("none" while there is none)
  mounted, cameraRequest, tracks,
  \* App state
  modelLoading, modelProgress, languageModelReady, modelWarning,
  currentHaiku, haikuHistory, shouldAutoCapture, timeUntilNext,
  errorMessage, processingHaiku, processingRef,
  \* timers
  initialTimer, captureTimer, countdownTimer, retryTimers,
  \* processFrame invocations that are awaiting a model call
  inflight,
  \* bookkeeping: cycles started, completion steps run, faults injected, last step taken
  started, completed, faults, lastEvent

svcVars == <<svc, load, calls, late>>
cameraVars == <<cameraStatus, mounted, cameraRequest, tracks>>
hookVars == <<webGPU, cameraVars, video>>
initVars == <<modelLoading, modelProgress, languageModelReady, modelWarning>>
cycleVars == <<currentHaiku, haikuHistory, shouldAutoCapture, timeUntilNext,
               errorMessage, processingHaiku, processingRef>>
timerVars == <<initialTimer, captureTimer, countdownTimer, retryTimers>>
bookVars == <<inflight, started, completed, faults>>
vars == <<svcVars, hookVars, initVars, cycleVars, timerVars, bookVars, lastEvent>>

\* The React state of App and of the hooks it uses: a step that changes none
\* of it commits no render.
reactState == <<webGPU, cameraStatus, modelLoading, modelProgress, languageModelReady,
                modelWarning, currentHaiku, haikuHistory, shouldAutoCapture,
                timeUntilNext, errorMessage, processingHaiku>>

Event(kind, src, n) == [kind |-> kind, src |-> src, n |-> n]

\* ----------------------------------------------------------------- services
NullService == [processor |-> 0, model |-> 0, loading |-> FALSE, initialized |-> FALSE]
NoLoad == [pc |-> "none", cb |-> 0]

isInitialized(s) == svc[s].initialized

\* a guard that tests loading alone
InitializeGuardM2(s) == svc[s].loading

\* a guard that tests initialized alone
InitializeGuardM1(s) == svc[s].initialized

\* the early return of initialize
InitializeGuard(s) == svc[s].initialized \/ svc[s].loading

\* initialize(progressCallback) up to its first await: the next value of the
\* service and of its load for a call with callback cb.
InitializeSvc(s, cb) ==
  IF InitializeGuard(s) THEN svc[s] ELSE [svc[s] EXCEPT !.loading = TRUE]

InitializeLoad(s, cb) ==
  IF InitializeGuard(s) THEN load[s] ELSE [pc |-> "processor", cb |-> cb]

\* one call of s.initialize, up to its first await
CallInitialize(s) ==
  LET cb == calls[s] + 1
  IN /\ svc' = [svc EXCEPT ![s] = InitializeSvc(s, cb)]
     /\ load' = [load EXCEPT ![s] = InitializeLoad(s, cb)]
     /\ calls' = [calls EXCEPT ![s] = cb]
     /\ late' = [late EXCEPT ![s] =
                   IF svc[s].initialized \/ svc[s].loading THEN @ \cup {cb} ELSE @]

\* from_pretrained of the processor (tokenizer) resolved: the handle is stored
ProcessorLoadedSvc(s) == [svc[s] EXCEPT !.processor = load[s].cb]

\* the check that opens analyzeImage, analyzeImageAndGenerateHaiku and
\* generateHaiku: a handle is missing
NotInitializedError(s) == svc[s].processor = 0 \/ svc[s].model = 0

\* a continuation that stores the model handle and leaves initialized as it is
ModelLoadedSvcM1(s) == [svc[s] EXCEPT !.model = load[s].cb, !.loading = FALSE]

\* from_pretrained of the model resolved: handle stored, initialized set, finally
ModelLoadedSvc(s) ==
  [svc[s] EXCEPT !.model = load[s].cb, !.initialized = TRUE, !.loading = FALSE]

\* either from_pretrained rejected: catch rethrows, finally clears loading
LoadFailedSvc(s) == [svc[s] EXCEPT !.loading = FALSE]


\* ------------------------------------------------------------------- hooks
\* captureFrame() of useCamera: a data URL, or null when there is no video
\* element, its readyState is below HAVE_CURRENT_DATA, or it has no dimensions
\* or canvas.  video is "none", "notReady", "noFrame" or "ready".
captureFrame == IF video = "ready" THEN "frame" ELSE "null"

\* the main interface (VideoCapture with its button) is what App renders
MainInterface == webGPU = "supported" /\ cameraStatus # "error" /\ ~modelLoading

\* the screen that App renders: its early returns in their order
Screen ==
  IF webGPU = "checking" THEN "checking"
  ELSE IF webGPU = "unsupported" THEN "unsupported"
  ELSE IF cameraStatus = "error" THEN "cameraError"
  ELSE IF modelLoading THEN "loading"
  ELSE "main"

\* ------------------------------------------------------------------ effects
\* the first-capture condition of the auto-capture effect
InitialCaptureDue(history, haiku, processing) ==
  Len(history) = 0 /\ haiku = <<>> /\ ~processing

\* an auto-capture effect without the camera guard
AutoCaptureEffectM2(keepInitial, keepCapture) ==
  IF reactState' = reactState
  THEN initialTimer' = keepInitial /\ captureTimer' = keepCapture
  ELSE IF ~isInitialized("smolVLMService")'
  THEN initialTimer' = NoTimer /\ captureTimer' = NoTimer
  ELSE IF InitialCaptureDue(haikuHistory', currentHaiku', processingRef')
  THEN initialTimer' = INITIAL_DELAY /\ captureTimer' = NoTimer
  ELSE IF ~shouldAutoCapture' \/ processingRef'
  THEN initialTimer' = NoTimer /\ captureTimer' = NoTimer
  ELSE initialTimer' = NoTimer /\ captureTimer' = CAPTURE_INTERVAL

\* an auto-capture effect that leaves the capture timer running during a cycle
AutoCaptureEffectM1(keepInitial, keepCapture) ==
  IF reactState' = reactState
  THEN initialTimer' = keepInitial /\ captureTimer' = keepCapture
  ELSE IF ~isInitialized("smolVLMService")' \/ cameraStatus' # "stream"
  THEN initialTimer' = NoTimer /\ captureTimer' = NoTimer
  ELSE IF InitialCaptureDue(haikuHistory', currentHaiku', processingRef')
  THEN initialTimer' = INITIAL_DELAY /\ captureTimer' = NoTimer
  ELSE IF ~shouldAutoCapture'
  THEN initialTimer' = NoTimer /\ captureTimer' = NoTimer
  ELSE IF processingRef'
  THEN initialTimer' = NoTimer /\ captureTimer' = keepCapture
  ELSE IF keepCapture # NoTimer
  THEN initialTimer' = NoTimer /\ captureTimer' = keepCapture
  ELSE initialTimer' = NoTimer /\ captureTimer' = CAPTURE_INTERVAL

\* The auto-capture effect.  generateHaikuFromFrame is rebuilt on every render
\* (captureFrame of useCamera is a new function each time), so the effect's
\* cleanup and body run after every committed render.  keepInitial and
\* keepCapture are the timers as the step leaves them when nothing is rendered.
AutoCaptureEffect(keepInitial, keepCapture) ==
  IF reactState' = reactState
  THEN initialTimer' = keepInitial /\ captureTimer' = keepCapture
  ELSE IF ~isInitialized("smolVLMService")' \/ cameraStatus' # "stream"
  THEN initialTimer' = NoTimer /\ captureTimer' = NoTimer
  ELSE IF InitialCaptureDue(haikuHistory', currentHaiku', processingRef')
  THEN initialTimer' = INITIAL_DELAY /\ captureTimer' = NoTimer
  ELSE IF ~shouldAutoCapture' \/ processingRef'
  THEN initialTimer' = NoTimer /\ captureTimer' = NoTimer
  ELSE initialTimer' = NoTimer /\ captureTimer' = CAPTURE_INTERVAL

\* a countdown effect that keeps its interval when the countdown is at 0
CountdownEffectM1(keep) ==
  IF shouldAutoCapture' = shouldAutoCapture /\ timeUntilNext' = timeUntilNext
  THEN countdownTimer' = keep
  ELSE IF ~shouldAutoCapture'
  THEN countdownTimer' = NoTimer
  ELSE countdownTimer' = COUNTDOWN_PERIOD

\* The countdown effect, which runs when shouldAutoCapture or timeUntilNext changed.
CountdownEffect(keep) ==
  IF shouldAutoCapture' = shouldAutoCapture /\ timeUntilNext' = timeUntilNext
  THEN countdownTimer' = keep
  ELSE IF ~shouldAutoCapture' \/ timeUntilNext' <= 0
  THEN countdownTimer' = NoTimer
  ELSE countdownTimer' = COUNTDOWN_PERIOD

Effects(keepInitial, keepCapture, keepCountdown) ==
  /\ AutoCaptureEffect(keepInitial, keepCapture)
  /\ CountdownEffect(keepCountdown)

\* ----------------------------------------------------------------- pipeline
\* an entry guard without the isInitialized test
EntryGuardM2 == processingRef

\* an entry guard without the processingRef test
EntryGuardM1 == ~isInitialized("smolVLMService")

\* the early return of generateHaikuFromFrame
EntryGuard == ~isInitialized("smolVLMService") \/ processingRef

\* a retry guard without the processingRef test
RetryGuardM1 == video # "none"

\* the guard of the retry callback
RetryGuard == ~processingRef /\ video # "none"

\* an updater without the slice
PushHistoryM1(entry, prev) == <<entry>> \o prev

\* setHaikuHistory: prepend, keep the first MAX_HAIKU_HISTORY
PushHistory(entry, prev) ==
  LET updated == <<entry>> \o prev
  IN SubSeq(updated, 1, IF Len(updated) < MAX_HAIKU_HISTORY THEN Len(updated)
                        ELSE MAX_HAIKU_HISTORY)

\* processFrame up to the await of the vision call
ProcessFrame(lmr, src) ==
  /\ processingRef' = TRUE
  /\ processingHaiku' = TRUE
  /\ errorMessage' = ""
  /\ inflight' = inflight \cup
       {[id |-> started + 1, pc |-> "analyzing", lmr |-> lmr,
         description |-> <<>>, haiku |-> <<>>]}
  /\ started' = started + 1
  /\ lastEvent' = Event("started", src, started + 1)

\* a generateHaikuFromFrame that queues a retry when its guard turns the call away
GenerateHaikuFromFrameM1(lmr, src, rt) ==
  IF EntryGuard
  THEN /\ Len(rt) < MaxRetryTimers
       /\ UNCHANGED <<errorMessage, processingRef, processingHaiku, inflight, started>>
       /\ retryTimers' = Append(rt, [rem |-> RETRY_DELAY, lmr |-> lmr])
       /\ lastEvent' = Event("ignored", src, 0)
  ELSE IF captureFrame = "null"
  THEN /\ Len(rt) < MaxRetryTimers
       /\ errorMessage' = ErrCapture
       /\ retryTimers' = Append(rt, [rem |-> RETRY_DELAY, lmr |-> lmr])
       /\ UNCHANGED <<processingRef, processingHaiku, inflight, started>>
       /\ lastEvent' = Event("captureFailed", src, 0)
  ELSE /\ ProcessFrame(lmr, src)
       /\ retryTimers' = rt

\* a generateHaikuFromFrame that schedules two retries when it gets no frame
GenerateHaikuFromFrameM2(lmr, src, rt) ==
  IF EntryGuard
  THEN /\ UNCHANGED <<errorMessage, processingRef, processingHaiku, inflight, started>>
       /\ retryTimers' = rt
       /\ lastEvent' = Event("ignored", src, 0)
  ELSE IF captureFrame = "null"
  THEN /\ Len(rt) < MaxRetryTimers
       /\ errorMessage' = ErrCapture
       /\ retryTimers' = rt \o <<[rem |-> RETRY_DELAY, lmr |-> lmr],
                                  [rem |-> RETRY_DELAY, lmr |-> lmr]>>
       /\ UNCHANGED <<processingRef, processingHaiku, inflight, started>>
       /\ lastEvent' = Event("captureFailed", src, 0)
  ELSE /\ ProcessFrame(lmr, src)
       /\ retryTimers' = rt

\* generateHaikuFromFrame as built by a render in which languageModelReady = lmr;
\* rt is the list of retry timers the caller leaves pending
GenerateHaikuFromFrame(lmr, src, rt) ==
  IF EntryGuard
  THEN /\ UNCHANGED <<errorMessage, processingRef, processingHaiku, inflight, started>>
       /\ retryTimers' = rt
       /\ lastEvent' = Event("ignored", src, 0)
  ELSE IF captureFrame = "null"
  THEN /\ Len(rt) < MaxRetryTimers
       /\ errorMessage' = ErrCapture
       /\ retryTimers' = Append(rt, [rem |-> RETRY_DELAY, lmr |-> lmr])
       /\ UNCHANGED <<processingRef, processingHaiku, inflight, started>>
       /\ lastEvent' = Event("captureFailed", src, 0)
  ELSE /\ ProcessFrame(lmr, src)
       /\ retryTimers' = rt

\* the entry of a completion at which the clock reads timestamp: the id is
\* "haiku-" followed by the timestamp in milliseconds
HaikuEntryAt(haiku, description, timestamp) ==
  [haiku |-> haiku, description |-> description, timestamp |-> timestamp,
   id |-> <<"haiku", timestamp>>]

\* an entry that keeps the fallback description in place of the cycle's own
HaikuEntryM1(haiku, description) ==
  [haiku |-> haiku, description |-> FallbackDescription, timestamp |-> completed + 1,
   id |-> <<"haiku", completed + 1>>]

\* The entry of a completion: timestamps are numbered in the order of the
\* completions, and the id is derived from the timestamp.
HaikuEntry(haiku, description) ==
  [haiku |-> haiku, description |-> description, timestamp |-> completed + 1,
   id |-> <<"haiku", completed + 1>>]

\* a completion step without setCurrentHaiku
CompleteM1(c, haiku, description, message) ==
  /\ haikuHistory' = PushHistory(HaikuEntry(haiku, description), haikuHistory)
  /\ shouldAutoCapture' = TRUE
  /\ timeUntilNext' = CAPTURE_INTERVAL
  /\ errorMessage' = message
  /\ processingRef' = FALSE
  /\ processingHaiku' = FALSE
  /\ inflight' = inflight \ {c}
  /\ completed' = completed + 1
  /\ lastEvent' = Event("completed", "", c.id)
  /\ UNCHANGED currentHaiku

\* a completion step without setShouldAutoCapture(true)
CompleteM2(c, haiku, description, message) ==
  /\ currentHaiku' = haiku
  /\ haikuHistory' = PushHistory(HaikuEntry(haiku, description), haikuHistory)
  /\ timeUntilNext' = CAPTURE_INTERVAL
  /\ errorMessage' = message
  /\ processingRef' = FALSE
  /\ processingHaiku' = FALSE
  /\ inflight' = inflight \ {c}
  /\ completed' = completed + 1
  /\ lastEvent' = Event("completed", "", c.id)
  /\ UNCHANGED shouldAutoCapture

\* the completion step of processFrame (the end of its try block), then finally
Complete(c, haiku, description, message) ==
  /\ currentHaiku' = haiku
  /\ haikuHistory' = PushHistory(HaikuEntry(haiku, description), haikuHistory)
  /\ shouldAutoCapture' = TRUE
  /\ timeUntilNext' = CAPTURE_INTERVAL
  /\ errorMessage' = message
  /\ processingRef' = FALSE
  /\ processingHaiku' = FALSE
  /\ inflight' = inflight \ {c}
  /\ completed' = completed + 1
  /\ lastEvent' = Event("completed", "", c.id)

\* the completion step of processFrame in which new Date() reads timestamp
CompleteAt(c, haiku, description, message, timestamp) ==
  /\ currentHaiku' = haiku
  /\ haikuHistory' = PushHistory(HaikuEntryAt(haiku, description, timestamp), haikuHistory)
  /\ shouldAutoCapture' = TRUE
  /\ timeUntilNext' = CAPTURE_INTERVAL
  /\ errorMessage' = message
  /\ processingRef' = FALSE
  /\ processingHaiku' = FALSE
  /\ inflight' = inflight \ {c}
  /\ completed' = completed + 1
  /\ lastEvent' = Event("completed", "", c.id)

\* a catch block that does not re-arm auto-capture
CatchErrorM1(c) ==
  /\ errorMessage' = ErrPipeline
  /\ currentHaiku' = EmergencyHaiku
  /\ processingRef' = FALSE
  /\ processingHaiku' = FALSE
  /\ inflight' = inflight \ {c}
  /\ UNCHANGED <<haikuHistory, completed, shouldAutoCapture, timeUntilNext>>
  /\ lastEvent' = Event("errored", "", c.id)

\* a catch block that is not followed by the finally block
CatchErrorM2(c) ==
  /\ errorMessage' = ErrPipeline
  /\ currentHaiku' = EmergencyHaiku
  /\ shouldAutoCapture' = TRUE
  /\ timeUntilNext' = CAPTURE_INTERVAL
  /\ inflight' = inflight \ {c}
  /\ UNCHANGED <<haikuHistory, completed, processingRef, processingHaiku>>
  /\ lastEvent' = Event("errored", "", c.id)

\* a catch block that files its haiku in the history
CatchErrorM3(c) ==
  /\ errorMessage' = ErrPipeline
  /\ currentHaiku' = EmergencyHaiku
  /\ haikuHistory' = PushHistory(HaikuEntry(EmergencyHaiku, <<>>), haikuHistory)
  /\ shouldAutoCapture' = TRUE
  /\ timeUntilNext' = CAPTURE_INTERVAL
  /\ processingRef' = FALSE
  /\ processingHaiku' = FALSE
  /\ inflight' = inflight \ {c}
  /\ UNCHANGED completed
  /\ lastEvent' = Event("errored", "", c.id)

\* the catch block of processFrame, then finally
CatchError(c) ==
  /\ errorMessage' = ErrPipeline
  /\ currentHaiku' = EmergencyHaiku
  /\ shouldAutoCapture' = TRUE
  /\ timeUntilNext' = CAPTURE_INTERVAL
  /\ processingRef' = FALSE
  /\ processingHaiku' = FALSE
  /\ inflight' = inflight \ {c}
  /\ UNCHANGED <<haikuHistory, completed>>
  /\ lastEvent' = Event("errored", "", c.id)

\* generateHaiku rejects only on its not-initialized check
GenerateHaikuRaises ==
  svc["qwenHaikuService"].processor = 0 \/ svc["qwenHaikuService"].model = 0

\* a processFrame that calls the language service in every cycle
UseLanguageServiceM1(c) == TRUE

\* the condition under which processFrame calls the language service
UseLanguageService(c) == c.lmr /\ isInitialized("qwenHaikuService")


\* --------------------------------------------------------- initialisation
Progress(stage, phase) == [stage |-> stage, phase |-> phase]
PhaseOf(s) == IF s = "smolVLMService" THEN "vision" ELSE "language"

\* an initialisation effect that runs initModel whatever the probe reports
WebGPUResolveM1(r) ==
  /\ webGPU = "checking"
  /\ webGPU' = r
  /\ modelWarning' = FALSE
  /\ languageModelReady' = FALSE
  /\ modelProgress' = Progress("initializing", "vision")
  /\ CallInitialize("smolVLMService")
  /\ lastEvent' = Event("webgpu", r, 0)
  /\ UNCHANGED <<cameraVars, video, modelLoading, cycleVars, retryTimers, bookVars>>
  /\ Effects(initialTimer, captureTimer, countdownTimer)

\* useWebGPU settles; when supported, the initialisation effect runs initModel
\* up to the first await inside smolVLMService.initialize
WebGPUResolve(r) ==
  /\ webGPU = "checking"
  /\ webGPU' = r
  /\ IF r = "supported"
     THEN /\ modelWarning' = FALSE
          /\ languageModelReady' = FALSE
          /\ modelProgress' = Progress("initializing", "vision")
          /\ CallInitialize("smolVLMService")
     ELSE UNCHANGED <<modelWarning, languageModelReady, modelProgress, svcVars>>
  /\ lastEvent' = Event("webgpu", r, 0)
  /\ UNCHANGED <<cameraVars, video, modelLoading, cycleVars, retryTimers, bookVars>>
  /\ Effects(initialTimer, captureTimer, countdownTimer)

\* getUserMedia settles
CameraResolve(r) ==
  /\ cameraRequest = "pending"
  /\ cameraStatus = "loading"
  /\ mounted
  /\ cameraStatus' = r
  /\ cameraRequest' = IF r = "stream" THEN "resolved" ELSE "rejected"
  /\ tracks' = IF r = "stream" THEN "live" ELSE "none"
  /\ mounted' = mounted
  /\ lastEvent' = Event("camera", r, 0)
  /\ UNCHANGED <<svcVars, webGPU, video, initVars, cycleVars, retryTimers, bookVars>>
  /\ Effects(initialTimer, captureTimer, countdownTimer)

\* VideoCapture has played the stream and stored its element in videoRef
VideoAttach(v) ==
  /\ MainInterface
  /\ cameraStatus = "stream"
  /\ video = "none"
  /\ video' = v
  /\ lastEvent' = Event("video", v, 0)
  /\ UNCHANGED <<svcVars, webGPU, cameraVars, initVars, cycleVars, timerVars, bookVars>>

\* the element's readyState or dimensions change
VideoChange(v) ==
  /\ video # "none"
  /\ video # v
  /\ video' = v
  /\ lastEvent' = Event("video", v, 0)
  /\ UNCHANGED <<svcVars, webGPU, cameraVars, initVars, cycleVars, timerVars, bookVars>>

\* a progress event of the load in flight reaches the callback App passed
AppProgress(s, status) ==
  /\ load[s].pc # "none"
  /\ modelProgress' = IF status = "done" THEN Progress("processing", PhaseOf(s))
                      ELSE Progress("downloading", PhaseOf(s))
  /\ lastEvent' = Event("progress", s, load[s].cb)
  /\ UNCHANGED <<svcVars, hookVars, modelLoading, languageModelReady, modelWarning,
                 cycleVars, retryTimers, bookVars>>
  /\ Effects(initialTimer, captureTimer, countdownTimer)

\* the processor (tokenizer) of s is loaded; initialize goes on to the model
ProcessorLoaded(s) ==
  /\ load[s].pc = "processor"
  /\ svc' = [svc EXCEPT ![s] = ProcessorLoadedSvc(s)]
  /\ load' = [load EXCEPT ![s].pc = "model"]
  /\ lastEvent' = Event("processorLoaded", s, load[s].cb)
  /\ UNCHANGED <<calls, late, hookVars, initVars, cycleVars, timerVars, bookVars>>

\* an initModel that ends the loading state as soon as the vision service is ready
AppVisionLoadedM1 ==
  /\ load["smolVLMService"].pc = "model"
  /\ LET q == "qwenHaikuService"
         cb == calls[q] + 1
     IN /\ svc' = [svc EXCEPT !["smolVLMService"] = ModelLoadedSvc("smolVLMService"),
                              ![q] = InitializeSvc(q, cb)]
        /\ load' = [load EXCEPT !["smolVLMService"] = NoLoad,
                                ![q] = InitializeLoad(q, cb)]
        /\ calls' = [calls EXCEPT ![q] = cb]
        /\ late' = [late EXCEPT ![q] =
                      IF svc[q].initialized \/ svc[q].loading THEN @ \cup {cb} ELSE @]
  /\ modelProgress' = Progress("initializing", "language")
  /\ modelLoading' = FALSE
  /\ lastEvent' = Event("modelLoaded", "smolVLMService", load["smolVLMService"].cb)
  /\ UNCHANGED <<hookVars, languageModelReady, modelWarning,
                 cycleVars, retryTimers, bookVars>>
  /\ Effects(initialTimer, captureTimer, countdownTimer)

\* smolVLMService.initialize resolves; initModel goes on to
\* qwenHaikuService.initialize, up to its first await
AppVisionLoaded ==
  /\ load["smolVLMService"].pc = "model"
  /\ LET q == "qwenHaikuService"
         cb == calls[q] + 1
     IN /\ svc' = [svc EXCEPT !["smolVLMService"] = ModelLoadedSvc("smolVLMService"),
                              ![q] = InitializeSvc(q, cb)]
        /\ load' = [load EXCEPT !["smolVLMService"] = NoLoad,
                                ![q] = InitializeLoad(q, cb)]
        /\ calls' = [calls EXCEPT ![q] = cb]
        /\ late' = [late EXCEPT ![q] =
                      IF svc[q].initialized \/ svc[q].loading THEN @ \cup {cb} ELSE @]
  /\ modelProgress' = Progress("initializing", "language")
  /\ lastEvent' = Event("modelLoaded", "smolVLMService", load["smolVLMService"].cb)
  /\ UNCHANGED <<hookVars, modelLoading, languageModelReady, modelWarning,
                 cycleVars, retryTimers, bookVars>>
  /\ Effects(initialTimer, captureTimer, countdownTimer)

\* smolVLMService.initialize rejects: the catch of initModel
AppVisionFailed ==
  /\ load["smolVLMService"].pc # "none"
  /\ svc' = [svc EXCEPT !["smolVLMService"] = LoadFailedSvc("smolVLMService")]
  /\ load' = [load EXCEPT !["smolVLMService"] = NoLoad]
  /\ modelProgress' = Progress("error", "error")
  /\ modelLoading' = FALSE
  /\ lastEvent' = Event("loadFailed", "smolVLMService", load["smolVLMService"].cb)
  /\ UNCHANGED <<calls, late, hookVars, languageModelReady, modelWarning,
                 cycleVars, retryTimers, bookVars>>
  /\ Effects(initialTimer, captureTimer, countdownTimer)

\* qwenHaikuService.initialize resolves
AppLanguageLoaded ==
  /\ load["qwenHaikuService"].pc = "model"
  /\ svc' = [svc EXCEPT !["qwenHaikuService"] = ModelLoadedSvc("qwenHaikuService")]
  /\ load' = [load EXCEPT !["qwenHaikuService"] = NoLoad]
  /\ languageModelReady' = TRUE
  /\ modelProgress' = Progress("ready", "finalizing")
  /\ modelLoading' = FALSE
  /\ lastEvent' = Event("modelLoaded", "qwenHaikuService", load["qwenHaikuService"].cb)
  /\ UNCHANGED <<calls, late, hookVars, modelWarning, cycleVars, retryTimers, bookVars>>
  /\ Effects(initialTimer, captureTimer, countdownTimer)

\* an inner catch of initModel that sets no warning
AppLanguageFailedM1 ==
  /\ load["qwenHaikuService"].pc # "none"
  /\ svc' = [svc EXCEPT !["qwenHaikuService"] = LoadFailedSvc("qwenHaikuService")]
  /\ load' = [load EXCEPT !["qwenHaikuService"] = NoLoad]
  /\ modelWarning' = modelWarning
  /\ modelProgress' = Progress("ready", "vision")
  /\ modelLoading' = FALSE
  /\ lastEvent' = Event("loadFailed", "qwenHaikuService", load["qwenHaikuService"].cb)
  /\ UNCHANGED <<calls, late, hookVars, languageModelReady, cycleVars, retryTimers, bookVars>>
  /\ Effects(initialTimer, captureTimer, countdownTimer)

\* qwenHaikuService.initialize rejects: the inner catch of initModel
AppLanguageFailed ==
  /\ load["qwenHaikuService"].pc # "none"
  /\ svc' = [svc EXCEPT !["qwenHaikuService"] = LoadFailedSvc("qwenHaikuService")]
  /\ load' = [load EXCEPT !["qwenHaikuService"] = NoLoad]
  /\ modelWarning' = TRUE
  /\ modelProgress' = Progress("ready", "vision")
  /\ modelLoading' = FALSE
  /\ lastEvent' = Event("loadFailed", "qwenHaikuService", load["qwenHaikuService"].cb)
  /\ UNCHANGED <<calls, late, hookVars, languageModelReady, cycleVars, retryTimers, bookVars>>
  /\ Effects(initialTimer, captureTimer, countdownTimer)

\* ---------------------------------------------------------------- triggers
\* the Capture Now button
ManualCapture(cap) ==
  /\ started < cap
  /\ MainInterface
  /\ GenerateHaikuFromFrame(languageModelReady, "manual", retryTimers)
  /\ UNCHANGED <<svcVars, hookVars, initVars, currentHaiku, haikuHistory,
                 shouldAutoCapture, timeUntilNext, completed, faults>>
  /\ Effects(initialTimer, captureTimer, countdownTimer)

\* the initial timer of the auto-capture effect
InitialFire(cap) ==
  /\ started < cap
  /\ initialTimer = 0
  /\ GenerateHaikuFromFrame(languageModelReady, "initial", retryTimers)
  /\ UNCHANGED <<svcVars, hookVars, initVars, currentHaiku, haikuHistory,
                 shouldAutoCapture, timeUntilNext, completed, faults>>
  /\ Effects(NoTimer, captureTimer, countdownTimer)

\* the capture timer of the auto-capture effect
CaptureFire(cap) ==
  /\ started < cap
  /\ captureTimer = 0
  /\ shouldAutoCapture' = FALSE
  /\ GenerateHaikuFromFrame(languageModelReady, "auto", retryTimers)
  /\ UNCHANGED <<svcVars, hookVars, initVars, currentHaiku, haikuHistory,
                 timeUntilNext, completed, faults>>
  /\ Effects(initialTimer, NoTimer, countdownTimer)

\* a retry callback that schedules itself again when its guard turns it away
RetryFireM1(i, cap) ==
  /\ started < cap
  /\ retryTimers[i].rem = 0
  /\ LET t == retryTimers[i]
         rt == SubSeq(retryTimers, 1, i - 1) \o SubSeq(retryTimers, i + 1, Len(retryTimers))
     IN IF RetryGuard
        THEN IF video # "notReady"
             THEN IF captureFrame # "null"
                  THEN ProcessFrame(t.lmr, "retry") /\ retryTimers' = rt
                  ELSE /\ errorMessage' = ErrRetry
                       /\ retryTimers' = rt
                       /\ lastEvent' = Event("aborted", "retry", 0)
                       /\ UNCHANGED <<processingRef, processingHaiku, inflight, started>>
             ELSE /\ errorMessage' = ErrStillInit
                  /\ retryTimers' = rt
                  /\ lastEvent' = Event("aborted", "retry", 0)
                  /\ UNCHANGED <<processingRef, processingHaiku, inflight, started>>
        ELSE /\ retryTimers' = Append(rt, [rem |-> RETRY_DELAY, lmr |-> t.lmr])
             /\ lastEvent' = Event("skipped", "retry", 0)
             /\ UNCHANGED <<errorMessage, processingRef, processingHaiku, inflight, started>>
  /\ UNCHANGED <<svcVars, hookVars, initVars, currentHaiku, haikuHistory,
                 shouldAutoCapture, timeUntilNext, completed, faults>>
  /\ Effects(initialTimer, captureTimer, countdownTimer)

\* the retry callback that generateHaikuFromFrame scheduled
RetryFire(i, cap) ==
  /\ started < cap
  /\ retryTimers[i].rem = 0
  /\ LET t == retryTimers[i]
         rt == SubSeq(retryTimers, 1, i - 1) \o SubSeq(retryTimers, i + 1, Len(retryTimers))
     IN IF RetryGuard
        THEN IF video # "notReady"
             THEN IF captureFrame # "null"
                  THEN ProcessFrame(t.lmr, "retry") /\ retryTimers' = rt
                  ELSE /\ errorMessage' = ErrRetry
                       /\ retryTimers' = rt
                       /\ lastEvent' = Event("aborted", "retry", 0)
                       /\ UNCHANGED <<processingRef, processingHaiku, inflight, started>>
             ELSE /\ errorMessage' = ErrStillInit
                  /\ retryTimers' = rt
                  /\ lastEvent' = Event("aborted", "retry", 0)
                  /\ UNCHANGED <<processingRef, processingHaiku, inflight, started>>
        ELSE /\ retryTimers' = rt
             /\ lastEvent' = Event("skipped", "retry", 0)
             /\ UNCHANGED <<errorMessage, processingRef, processingHaiku, inflight, started>>
  /\ UNCHANGED <<svcVars, hookVars, initVars, currentHaiku, haikuHistory,
                 shouldAutoCapture, timeUntilNext, completed, faults>>
  /\ Effects(initialTimer, captureTimer, countdownTimer)

\* the interval of the countdown effect
CountdownTick ==
  /\ countdownTimer = 0
  /\ timeUntilNext' = IF timeUntilNext - 1 > 0 THEN timeUntilNext - 1 ELSE 0
  /\ lastEvent' = Event("countdown", "", 0)
  /\ UNCHANGED <<svcVars, hookVars, initVars, currentHaiku, haikuHistory,
                 shouldAutoCapture, errorMessage, processingHaiku, processingRef,
                 retryTimers, bookVars>>
  /\ Effects(initialTimer, captureTimer, COUNTDOWN_PERIOD)

\* --------------------------------------------------------- model calls
\* the hours of the day at which the vision service reads the clock
Hours == {14}

\* what the vision model answers in the application: a plain description of
\* the scene, and a description followed by a haiku that is announced as
\* "Haiku poem:" and cut off by the generation limit
SceneResponse == <<"a", " ", "quiet", " ", "rainy", " ", "street">>
AnnouncedResponse ==
  <<"a desk by a window.", "\n", "Haiku", " ", "poem", ":", "\n", "Quiet desk at dusk">>

\* what the language model answers in the application: a haiku behind a closed
\* think block, and an answer that reasons aloud
HaikuText ==
  <<"<think>", "count the beats", "</think>", "\n", "Rain maps the window", "\n",
    "1.", " ", "A street holds its breath", "\n", " ", "Lamps hum to the dusk", "\n">>
ReasoningText == <<"Okay,", " ", "a haiku about rain", "\n", "Rain maps the window">>

\* analyzeImageAndGenerateHaiku and generateHaiku, tabulated for the answers of
\* the application
analysisOf ==
  [throws \in BOOLEAN, generatedText \in {SceneResponse, AnnouncedResponse}, hour \in Hours |->
     analyzeImageAndGenerateHaiku(throws, generatedText, hour)]
haikuOf ==
  [description \in {analysisOf[x].description : x \in DOMAIN analysisOf},
   rawGenerated \in {HaikuText, ReasoningText} |->
     generateHaiku(description, FALSE, rawGenerated)]

\* The awaited analyzeImageAndGenerateHaiku settles.  It resolves with what it
\* reads out of the model's answer ("described", "announced"), resolves with
\* its fallback result because a step of the analysis threw ("fallback"), or
\* the call raises ("raises": the service variant that defines analyzeImage
\* only has no such method, and the other variant rejects when a handle is
\* missing).
AnalyzeReturn(c, outcome) ==
  /\ c \in inflight
  /\ c.pc = "analyzing"
  /\ IF outcome = "described" THEN faults' = faults
     ELSE faults < MaxFaults /\ faults' = faults + 1
  /\ IF outcome = "raises"
     THEN CatchError(c)
     ELSE \E hour \in Hours :
          LET result == analysisOf[outcome = "fallback",
                                   IF outcome = "announced" THEN AnnouncedResponse
                                   ELSE SceneResponse,
                                   hour]
              message == IF result.description = FallbackDescription THEN ErrVisionFallback
                         ELSE errorMessage
          IN IF UseLanguageService(c)
             THEN /\ inflight' = (inflight \ {c}) \cup
                       {[c EXCEPT !.pc = "composing", !.description = result.description,
                                  !.haiku = result.haiku]}
                  /\ errorMessage' = message
                  /\ lastEvent' = Event("described", "", c.id)
                  /\ UNCHANGED <<currentHaiku, haikuHistory, shouldAutoCapture,
                                 timeUntilNext, processingHaiku, processingRef, completed>>
             ELSE Complete(c, result.haiku, result.description, message)
  /\ UNCHANGED <<svcVars, hookVars, initVars, retryTimers, started>>
  /\ Effects(initialTimer, captureTimer, countdownTimer)

\* The awaited generateHaiku settles: it rejects on its not-initialized check,
\* and otherwise resolves with the haiku it makes of the model's answer
\* ("generated": the answer holds a haiku, "fallback": the answer is rejected).
ComposeReturn(c, outcome) ==
  /\ c \in inflight
  /\ c.pc = "composing"
  /\ IF outcome = "generated" THEN faults' = faults
     ELSE faults < MaxFaults /\ faults' = faults + 1
  /\ IF GenerateHaikuRaises
     THEN Complete(c, c.haiku, c.description, ErrQwen)
     ELSE Complete(c, haikuOf[c.description,
                              IF outcome = "generated" THEN HaikuText ELSE ReasoningText],
                   c.description, errorMessage)
  /\ UNCHANGED <<svcVars, hookVars, initVars, retryTimers, started>>
  /\ Effects(initialTimer, captureTimer, countdownTimer)

\* the readings of the clock at the completions of a run, in milliseconds
Dates == 1..MaxDate

\* the vision call settles and, where the cycle completes, new Date() reads timestamp
AnalyzeReturnAt(c, outcome, timestamp) ==
  /\ c \in inflight
  /\ c.pc = "analyzing"
  /\ IF outcome = "described" THEN faults' = faults
     ELSE faults < MaxFaults /\ faults' = faults + 1
  /\ IF outcome = "raises"
     THEN CatchError(c)
     ELSE \E hour \in Hours :
          LET result == analysisOf[outcome = "fallback",
                                   IF outcome = "announced" THEN AnnouncedResponse
                                   ELSE SceneResponse,
                                   hour]
              message == IF result.description = FallbackDescription THEN ErrVisionFallback
                         ELSE errorMessage
          IN IF UseLanguageService(c)
             THEN /\ inflight' = (inflight \ {c}) \cup
                       {[c EXCEPT !.pc = "composing", !.description = result.description,
                                  !.haiku = result.haiku]}
                  /\ errorMessage' = message
                  /\ lastEvent' = Event("described", "", c.id)
                  /\ UNCHANGED <<currentHaiku, haikuHistory, shouldAutoCapture,
                                 timeUntilNext, processingHaiku, processingRef, completed>>
             ELSE CompleteAt(c, result.haiku, result.description, message, timestamp)
  /\ UNCHANGED <<svcVars, hookVars, initVars, retryTimers, started>>
  /\ Effects(initialTimer, captureTimer, countdownTimer)

\* generateHaiku settles and new Date() reads timestamp
ComposeReturnAt(c, outcome, timestamp) ==
  /\ c \in inflight
  /\ c.pc = "composing"
  /\ IF outcome = "generated" THEN faults' = faults
     ELSE faults < MaxFaults /\ faults' = faults + 1
  /\ IF GenerateHaikuRaises
     THEN CompleteAt(c, c.haiku, c.description, ErrQwen, timestamp)
     ELSE CompleteAt(c, haikuOf[c.description,
                                IF outcome = "generated" THEN HaikuText ELSE ReasoningText],
                     c.description, errorMessage, timestamp)
  /\ UNCHANGED <<svcVars, hookVars, initVars, retryTimers, started>>
  /\ Effects(initialTimer, captureTimer, countdownTimer)

\* --------------------------------------------------------------------- time
Dec(t) == IF t = NoTimer THEN NoTimer ELSE t - 1

\* one second passes: no pending timer is due
Tick ==
  /\ initialTimer # 0 /\ captureTimer # 0 /\ countdownTimer # 0
  /\ \A i \in 1..Len(retryTimers) : retryTimers[i].rem # 0
  /\ \/ initialTimer > 0 \/ captureTimer > 0 \/ countdownTimer > 0 \/ Len(retryTimers) > 0
  /\ initialTimer' = Dec(initialTimer)
  /\ captureTimer' = Dec(captureTimer)
  /\ countdownTimer' = Dec(countdownTimer)
  /\ retryTimers' = [i \in 1..Len(retryTimers) |->
                       [retryTimers[i] EXCEPT !.rem = @ - 1]]
  /\ lastEvent' = Event("tick", "", 0)
  /\ UNCHANGED <<svcVars, hookVars, initVars, cycleVars, bookVars>>

\* ------------------------------------------------------------ specification
Init ==
  /\ svc = [s \in Services |-> NullService]
  /\ load = [s \in Services |-> NoLoad]
  /\ calls = [s \in Services |-> 0]
  /\ late = [s \in Services |-> {}]
  /\ webGPU = "checking"
  /\ cameraStatus = "loading"
  /\ mounted = TRUE
  /\ cameraRequest = "pending"
  /\ tracks = "none"
  /\ video = "none"
  /\ modelLoading = TRUE
  /\ modelProgress = Progress("initializing", "vision")
  /\ languageModelReady = FALSE
  /\ modelWarning = FALSE
  /\ currentHaiku = <<>>
  /\ haikuHistory = <<>>
  /\ shouldAutoCapture = FALSE
  /\ timeUntilNext = 0
  /\ errorMessage = ""
  /\ processingHaiku = FALSE
  /\ processingRef = FALSE
  /\ initialTimer = NoTimer
  /\ captureTimer = NoTimer
  /\ countdownTimer = NoTimer
  /\ retryTimers = <<>>
  /\ inflight = {}
  /\ started = 0
  /\ completed = 0
  /\ faults = 0
  /\ lastEvent = Event("init", "", 0)

\* what the environment does on its own: probes, loads, the video element
Environment ==
  \/ \E r \in {"supported", "unsupported"} : WebGPUResolve(r)
  \/ \E r \in {"stream", "error"} : CameraResolve(r)
  \/ \E s \in Services, st \in {"progress", "done"} : AppProgress(s, st)
  \/ \E s \in Services : ProcessorLoaded(s)
  \/ AppVisionLoaded
  \/ AppVisionFailed
  \/ AppLanguageLoaded
  \/ AppLanguageFailed

\* the callers of generateHaikuFromFrame and the retry callback, in runs of
\* at most cap cycles
Triggers(cap) ==
  \/ ManualCapture(cap)
  \/ InitialFire(cap)
  \/ CaptureFire(cap)
  \/ \E i \in 1..Len(retryTimers) : RetryFire(i, cap)

\* Spec: every environment, runs of at most MaxCycles cycles
Next ==
  \/ Environment
  \/ \E v \in {"notReady", "noFrame", "ready"} : VideoAttach(v)
  \/ \E v \in {"notReady", "noFrame", "ready"} : VideoChange(v)
  \/ Triggers(MaxCycles)
  \/ CountdownTick
  \/ \E c \in inflight, o \in {"described", "fallback", "raises"} : AnalyzeReturn(c, o)
  \/ \E c \in inflight, o \in {"generated", "fallback"} : ComposeReturn(c, o)
  \/ Tick

Spec == Init /\ [][Next]_vars

\* SpecAnswers: runs of at most MaxAnswerCycles cycles in which the video
\* element delivers frames from the moment it is attached and the vision model
\* also gives the answer that announces a haiku
NextAnswers ==
  \/ Environment
  \/ VideoAttach("ready")
  \/ Triggers(MaxAnswerCycles)
  \/ CountdownTick
  \/ \E c \in inflight, o \in {"described", "announced", "fallback", "raises"} :
       AnalyzeReturn(c, o)
  \/ \E c \in inflight, o \in {"generated", "fallback"} : ComposeReturn(c, o)
  \/ Tick

SpecAnswers == Init /\ [][NextAnswers]_vars

\* SpecAnswersFair: SpecAnswers in which every awaited model call settles
AnswerSettles ==
  \/ \E c \in inflight, o \in {"described", "announced", "fallback", "raises"} :
       AnalyzeReturn(c, o)
  \/ \E c \in inflight, o \in {"generated", "fallback"} : ComposeReturn(c, o)

SpecAnswersFair == Init /\ [][NextAnswers]_vars /\ WF_vars(AnswerSettles)

\* SpecClock: runs of at most MaxClockCycles cycles in which the video element
\* delivers frames and every completion reads the clock
NextClock ==
  \/ Environment
  \/ VideoAttach("ready")
  \/ Triggers(MaxClockCycles)
  \/ CountdownTick
  \/ \E c \in inflight, o \in {"described", "fallback", "raises"}, t \in Dates :
       AnalyzeReturnAt(c, o, t)
  \/ \E c \in inflight, o \in {"generated", "fallback"}, t \in Dates :
       ComposeReturnAt(c, o, t)
  \/ Tick

SpecClock == Init /\ [][NextClock]_vars

\* SpecLong: longer runs, of at most MaxLongCycles cycles, in which the video
\* element delivers frames from the moment it is attached and the vision call
\* does not return its fallback description
NextLong ==
  \/ Environment
  \/ VideoAttach("ready")
  \/ Triggers(MaxLongCycles)
  \/ CountdownTick
  \/ \E c \in inflight, o \in {"described", "raises"} : AnalyzeReturn(c, o)
  \/ \E c \in inflight : ComposeReturn(c, "generated")
  \/ Tick

SpecLong == Init /\ [][NextLong]_vars

\* SpecLongFair: SpecLong in which the event loop runs what is due.  Time
\* advances, a timer that is due fires, and an awaited model call settles;
\* nothing is assumed about the Capture Now button.
ModelCallSettles ==
  \/ \E c \in inflight, o \in {"described", "raises"} : AnalyzeReturn(c, o)
  \/ \E c \in inflight : ComposeReturn(c, "generated")

TimerFires ==
  \/ InitialFire(MaxLongCycles)
  \/ CaptureFire(MaxLongCycles)
  \/ \E i \in 1..Len(retryTimers) : RetryFire(i, MaxLongCycles)
  \/ CountdownTick

SpecLongFair ==
  /\ Init /\ [][NextLong]_vars
  /\ WF_vars(Tick)
  /\ WF_vars(TimerFires)
  /\ WF_vars(ModelCallSettles)


\* SpecDirect: the two services driven by a caller that calls initialize at any
\* moment, at most MaxInitCalls times each
DirectInitialize(s) ==
  /\ calls[s] < MaxInitCalls
  /\ CallInitialize(s)
  /\ lastEvent' = Event("initialize", s, calls[s] + 1)
  /\ UNCHANGED <<hookVars, initVars, cycleVars, timerVars, bookVars>>

DirectProgress(s) ==
  /\ load[s].pc # "none"
  /\ lastEvent' = Event("progress", s, load[s].cb)
  /\ UNCHANGED <<svcVars, hookVars, initVars, cycleVars, timerVars, bookVars>>

DirectModelLoaded(s) ==
  /\ load[s].pc = "model"
  /\ svc' = [svc EXCEPT ![s] = ModelLoadedSvc(s)]
  /\ load' = [load EXCEPT ![s] = NoLoad]
  /\ lastEvent' = Event("modelLoaded", s, load[s].cb)
  /\ UNCHANGED <<calls, late, hookVars, initVars, cycleVars, timerVars, bookVars>>

DirectLoadFailed(s) ==
  /\ load[s].pc # "none"
  /\ svc' = [svc EXCEPT ![s] = LoadFailedSvc(s)]
  /\ load' = [load EXCEPT ![s] = NoLoad]
  /\ lastEvent' = Event("loadFailed", s, load[s].cb)
  /\ UNCHANGED <<calls, late, hookVars, initVars, cycleVars, timerVars, bookVars>>

\* the caller calls the inference operation of s, which fails on its
\* not-initialized check or goes on to return a result
DirectInference(s) ==
  /\ lastEvent' = Event(IF NotInitializedError(s) THEN "notInitialized" ELSE "returned", s, 0)
  /\ UNCHANGED <<svcVars, hookVars, initVars, cycleVars, timerVars, bookVars>>

NextDirect ==
  \/ \E s \in Services : DirectInitialize(s)
  \/ \E s \in Services : DirectInference(s)
  \/ \E s \in Services : DirectProgress(s)
  \/ \E s \in Services : ProcessorLoaded(s)
  \/ \E s \in Services : DirectModelLoaded(s)
  \/ \E s \in Services : DirectLoadFailed(s)

SpecDirect == Init /\ [][NextDirect]_vars

\* SpecText: the inference operations of the two loaded services, called with
\* descriptions, model answers of at most MaxLines lines and hours drawn from
\* samples; lastEvent is the call, and then the call with its result
ReadyService == [processor |-> 1, model |-> 1, loading |-> FALSE, initialized |-> TRUE]

\* lines of an answer of the language model
AnswerLines ==
  { <<"cold river at dusk">>,
    <<"Assistant:", " ", "mist lifts", " ", "(emoji)">>,
    <<"ab">>,
    <<"\r">>,
    <<"room", " ", "7">>,
    <<"1.", " ", "rain maps">>,
    <<"Okay,", " ", "here">>,
    <<"<think>", "hmm">>,
    <<"done", "</think>", "red leaves">>,
    <<"(fence)">> }

\* descriptions handed to generateHaiku
Descriptions ==
  { <<" ">>,
    <<"a", " ", "quiet", " ", "Night">>,
    <<"morning", " ", "water">>,
    <<"still", " ", "water", " ">>,
    <<"a desk by a window">> }

\* lines of an answer of the vision model
ResponseLines ==
  { <<"a desk by a window">>,
    <<"a", " ", "lamp">>,
    <<"what", " ", "a", " ", "damn", " ", "mess">>,
    <<"Assistant:", " ", "two cups, one spoon">>,
    <<"User:", " ", "describe the image">>,
    <<" ", "\t">>,
    <<"Haiku", ":">>,
    <<"a", " ", "Man", " ", "by", " ", "a", " ", "wall">>,
    <<"a", " ", "green", " ", "poem">> }

HourSamples == {3, 9, 14, 19, 22}

\* the sequences of at most MaxLines lines drawn from lines
LineSeqs(lines) == UNION {[1..k -> lines] : k \in 0..MaxLines}

\* a call of an inference operation, before it has returned and after
CallEvent(kind, args) == [kind |-> kind, args |-> args, done |-> FALSE, result |-> <<>>]
Returned(call, result) == [call EXCEPT !.done = TRUE, !.result = result]

\* the call that is made; an operation that throws does so whatever the model
\* would have answered
TextCall(call) ==
  \/ \E d \in Descriptions, f \in LineSeqs(AnswerLines) :
       call = CallEvent("generateHaiku",
                        [description |-> d, throws |-> FALSE, rawGenerated |-> join(f, "\n")])
  \/ \E d \in Descriptions :
       call = CallEvent("generateHaiku",
                        [description |-> d, throws |-> TRUE, rawGenerated |-> <<>>])
  \/ \E f \in LineSeqs(ResponseLines) :
       call = CallEvent("analyzeImage", [throws |-> FALSE, generatedText |-> join(f, "\n")])
  \/ call = CallEvent("analyzeImage", [throws |-> TRUE, generatedText |-> <<>>])
  \/ \E f \in LineSeqs(ResponseLines), hour \in HourSamples :
       call = CallEvent("analyzeImageAndGenerateHaiku",
                        [throws |-> FALSE, generatedText |-> join(f, "\n"), hour |-> hour])
  \/ \E hour \in HourSamples :
       call = CallEvent("analyzeImageAndGenerateHaiku",
                        [throws |-> TRUE, generatedText |-> <<>>, hour |-> hour])

InitText ==
  /\ svc = [s \in Services |-> ReadyService]
  /\ load = [s \in Services |-> NoLoad]
  /\ calls = [s \in Services |-> 1]
  /\ late = [s \in Services |-> {}]
  /\ webGPU = "checking"
  /\ cameraStatus = "loading"
  /\ mounted = TRUE
  /\ cameraRequest = "pending"
  /\ tracks = "none"
  /\ video = "none"
  /\ modelLoading = TRUE
  /\ modelProgress = Progress("initializing", "vision")
  /\ languageModelReady = FALSE
  /\ modelWarning = FALSE
  /\ currentHaiku = <<>>
  /\ haikuHistory = <<>>
  /\ shouldAutoCapture = FALSE
  /\ timeUntilNext = 0
  /\ errorMessage = ""
  /\ processingHaiku = FALSE
  /\ processingRef = FALSE
  /\ initialTimer = NoTimer
  /\ captureTimer = NoTimer
  /\ countdownTimer = NoTimer
  /\ retryTimers = <<>>
  /\ inflight = {}
  /\ started = 0
  /\ completed = 0
  /\ faults = 0
  /\ TextCall(lastEvent)

TextGenerateHaiku ==
  /\ lastEvent.kind = "generateHaiku" /\ ~lastEvent.done
  /\ ~NotInitializedError("qwenHaikuService")
  /\ lastEvent' = Returned(lastEvent,
                           generateHaiku(lastEvent.args.description, lastEvent.args.throws,
                                         lastEvent.args.rawGenerated))
  /\ UNCHANGED <<svcVars, hookVars, initVars, cycleVars, timerVars, bookVars>>

TextAnalyzeImage ==
  /\ lastEvent.kind = "analyzeImage" /\ ~lastEvent.done
  /\ ~NotInitializedError("smolVLMService")
  /\ lastEvent' = Returned(lastEvent,
                           analyzeImage(lastEvent.args.throws, lastEvent.args.generatedText))
  /\ UNCHANGED <<svcVars, hookVars, initVars, cycleVars, timerVars, bookVars>>

TextAnalyzeImageAndGenerateHaiku ==
  /\ lastEvent.kind = "analyzeImageAndGenerateHaiku" /\ ~lastEvent.done
  /\ ~NotInitializedError("smolVLMService")
  /\ lastEvent' = Returned(lastEvent,
                           analyzeImageAndGenerateHaiku(lastEvent.args.throws,
                                                        lastEvent.args.generatedText,
                                                        lastEvent.args.hour))
  /\ UNCHANGED <<svcVars, hookVars, initVars, cycleVars, timerVars, bookVars>>

\* SpecDescribe: analyzeImage of a ready vision service, called on answers made
\* of lines with runs of white space, disallowed words in either case, and
\* lines of ten characters or fewer
DescriptionLines ==
  { <<"a desk by a window">>,
    <<" ", "two", "\t", " ", "cups", " ", " ", "one spoon", " ">>,
    <<"oh", " ", "Damn", " ", "it rains">>,
    <<"damn">>,
    <<"\t", "\r">>,
    <<"Assistant:", " ", "what a", " ", "shit", " ", "show it is">>,
    <<"User:", " ", "describe the image">> }

DescribeCall(call) ==
  \/ \E f \in LineSeqs(DescriptionLines) :
       call = CallEvent("analyzeImage", [throws |-> FALSE, generatedText |-> join(f, "\n")])
  \/ call = CallEvent("analyzeImage", [throws |-> TRUE, generatedText |-> <<>>])

InitDescribe ==
  /\ svc = [s \in Services |-> ReadyService]
  /\ load = [s \in Services |-> NoLoad]
  /\ calls = [s \in Services |-> 1]
  /\ late = [s \in Services |-> {}]
  /\ webGPU = "checking"
  /\ cameraStatus = "loading"
  /\ mounted = TRUE
  /\ cameraRequest = "pending"
  /\ tracks = "none"
  /\ video = "none"
  /\ modelLoading = TRUE
  /\ modelProgress = Progress("initializing", "vision")
  /\ languageModelReady = FALSE
  /\ modelWarning = FALSE
  /\ currentHaiku = <<>>
  /\ haikuHistory = <<>>
  /\ shouldAutoCapture = FALSE
  /\ timeUntilNext = 0
  /\ errorMessage = ""
  /\ processingHaiku = FALSE
  /\ processingRef = FALSE
  /\ initialTimer = NoTimer
  /\ captureTimer = NoTimer
  /\ countdownTimer = NoTimer
  /\ retryTimers = <<>>
  /\ inflight = {}
  /\ started = 0
  /\ completed = 0
  /\ faults = 0
  /\ DescribeCall(lastEvent)

SpecDescribe == InitDescribe /\ [][TextAnalyzeImage]_vars

\* SpecFallback: generateHaiku of a ready language service, called with
\* descriptions of at most MaxWords words among which the three keywords occur
\* in every order and in either case, and answered by a failure of the model
\* call, by reasoning, or by a haiku
DescriptionWords == {"Night", "night", "Morning", "water", "a desk"}

FallbackCall(call) ==
  \E k \in 0..MaxWords : \E w \in [1..k -> DescriptionWords] :
    LET description == join([i \in 1..k |-> <<w[i]>>], " ")
    IN \/ call = CallEvent("generateHaiku",
                           [description |-> description, throws |-> TRUE,
                            rawGenerated |-> <<>>])
       \/ \E answer \in {ReasoningText, HaikuText} :
            call = CallEvent("generateHaiku",
                             [description |-> description, throws |-> FALSE,
                              rawGenerated |-> answer])

InitFallback ==
  /\ svc = [s \in Services |-> ReadyService]
  /\ load = [s \in Services |-> NoLoad]
  /\ calls = [s \in Services |-> 1]
  /\ late = [s \in Services |-> {}]
  /\ webGPU = "checking"
  /\ cameraStatus = "loading"
  /\ mounted = TRUE
  /\ cameraRequest = "pending"
  /\ tracks = "none"
  /\ video = "none"
  /\ modelLoading = TRUE
  /\ modelProgress = Progress("initializing", "vision")
  /\ languageModelReady = FALSE
  /\ modelWarning = FALSE
  /\ currentHaiku = <<>>
  /\ haikuHistory = <<>>
  /\ shouldAutoCapture = FALSE
  /\ timeUntilNext = 0
  /\ errorMessage = ""
  /\ processingHaiku = FALSE
  /\ processingRef = FALSE
  /\ initialTimer = NoTimer
  /\ captureTimer = NoTimer
  /\ countdownTimer = NoTimer
  /\ retryTimers = <<>>
  /\ inflight = {}
  /\ started = 0
  /\ completed = 0
  /\ faults = 0
  /\ FallbackCall(lastEvent)

SpecFallback == InitFallback /\ [][TextGenerateHaiku]_vars

NextText ==
  \/ TextGenerateHaiku
  \/ TextAnalyzeImage
  \/ TextAnalyzeImageAndGenerateHaiku

SpecText == InitText /\ [][NextText]_vars

\* ------------------------------------------------------------------ claims
\* everything but lastEvent
programVars == <<svcVars, hookVars, initVars, cycleVars, timerVars, bookVars>>

Min(a, b) == IF a < b THEN a ELSE b

\* C1: in every reachable state at most one processing cycle is in flight, and
\* processingRef is set exactly while one is: processFrame is never entered
\* while processingRef is already set.
C1_AtMostOneCycle ==
  /\ Cardinality(inflight) <= 1
  /\ processingRef <=> inflight # {}

\* a retry timer came due while a cycle was active, and was turned away
C1_Witness ==
  /\ inflight # {}
  /\ lastEvent = Event("skipped", "retry", 0)

\* C2: a manual trigger issued while a cycle is active changes nothing (no
\* retry scheduled; history, current haiku, countdown, auto-arm and every timer
\* unchanged), and the step that completes a cycle starts no other cycle and
\* schedules nothing: the ignored trigger leaves no request behind.
C2_ManualWhileActiveIsNoOp ==
  [][/\ (lastEvent'.src = "manual" /\ processingRef) => UNCHANGED programVars
     /\ lastEvent'.kind = "completed" =>
          /\ completed' = completed + 1
          /\ started' = started
          /\ inflight' = {}
          /\ retryTimers' = retryTimers]_vars

\* the Capture Now button was pressed while a cycle was awaiting the language service
C2_Witness ==
  /\ lastEvent = Event("ignored", "manual", 0)
  /\ \E c \in inflight : c.pc = "composing"

\* C3: after N completions the history holds min(N, 10) entries, most recent
\* first (the i-th entry is that of the i-th most recent completion), so the
\* oldest is evicted once 10 are held and the length never exceeds 10.
C3_HistoryIsLastTen ==
  /\ Len(haikuHistory) = Min(completed, 10)
  /\ \A i \in 1..Len(haikuHistory) : haikuHistory[i].timestamp = completed + 1 - i

\* the eleventh completion has evicted the entry of the first
C3_Witness ==
  /\ completed = 11
  /\ Len(haikuHistory) = 10
  /\ haikuHistory[10].timestamp = 2

\* the haikus that the language service returns and those that the vision service returns
QwenHaiku ==
  <<"Rain maps the window", "\n", "A street holds its breath", "\n", "Lamps hum to the dusk">>
LanguageHaikus == {QwenHaiku, NightHaiku, MorningHaiku, WaterHaiku, GenericHaiku}
VisionHaikus ==
  {<<>>, ManWallHaiku, PersonHaiku, GreenHaiku, FocusHaiku, NightTimeHaiku,
   MorningTimeHaiku, AfternoonHaiku, EveningHaiku}

\* C4: every completion, whatever produced the haiku, prepends one entry
\* {haiku, description, timestamp, id} to the history, makes that entry's haiku
\* the current haiku, clears processingRef, arms auto-capture and sets the
\* countdown to 10.
C4_CompletionStep ==
  [][lastEvent'.kind = "completed" =>
       /\ Len(haikuHistory') = Min(Len(haikuHistory) + 1, 10)
       /\ DOMAIN haikuHistory'[1] = {"haiku", "description", "timestamp", "id"}
       /\ haikuHistory'[1].timestamp = completed + 1
       /\ \A i \in 2..Len(haikuHistory') : haikuHistory'[i] = haikuHistory[i - 1]
       /\ haikuHistory'[1].haiku \in LanguageHaikus \cup VisionHaikus
       /\ currentHaiku' = haikuHistory'[1].haiku
       /\ ~processingRef'
       /\ shouldAutoCapture'
       /\ timeUntilNext' = 10]_vars

\* haikus of all three origins have completed a cycle
C4_Witness ==
  /\ lastEvent.kind = "completed"
  /\ Len(haikuHistory) = 3
  /\ {haikuHistory[i].haiku : i \in 1..3} = {QwenHaiku, GenericHaiku, AfternoonHaiku}

\* C5: when the pipeline raises after a frame was obtained, its handler sets
\* the error message, makes the emergency haiku the current haiku, arms
\* auto-capture with the countdown at 10 and clears processingRef; the cycle
\* is over and has added nothing to the history.
C5_PipelineErrorHandled ==
  [][lastEvent'.kind = "errored" =>
       /\ errorMessage' = ErrPipeline
       /\ currentHaiku' = EmergencyHaiku
       /\ shouldAutoCapture'
       /\ timeUntilNext' = 10
       /\ ~processingRef'
       /\ inflight' = {}
       /\ haikuHistory' = haikuHistory]_vars

\* a cycle started by the auto-capture timer has raised
C5_Witness ==
  /\ lastEvent.kind = "errored"
  /\ currentHaiku = EmergencyHaiku
  /\ Len(haikuHistory) = 1
  /\ shouldAutoCapture

\* C6: with the camera streaming, frames capturable and model calls settling,
\* every cycle that completes or errors is followed by the start of another
\* cycle, whether or not the Capture Now button is ever pressed (up to
\* MaxLongCycles cycles in a run).
C6_CadenceNeverStalls ==
  (lastEvent.kind \in {"completed", "errored"} /\ started < MaxLongCycles)
    ~> (lastEvent.kind = "started")

\* the auto-capture timer has started the cycle after one that raised
C6_Witness ==
  /\ lastEvent = Event("started", "auto", 2)
  /\ currentHaiku = EmergencyHaiku

\* C7: a retry that obtains a frame starts exactly one cycle, with none in
\* flight, schedules no further retry and adds nothing to the history itself;
\* a cycle leaves the pipeline once, and its completion adds exactly one entry.
C7_RetryYieldsOneEntry ==
  [][/\ (lastEvent'.kind = "started" /\ lastEvent'.src = "retry") =>
          /\ inflight = {}
          /\ Cardinality(inflight') = 1
          /\ \A c \in inflight' : c.id = lastEvent'.n /\ c.id = started + 1
          /\ started' = started + 1
          /\ Len(retryTimers') = Len(retryTimers) - 1
          /\ haikuHistory' = haikuHistory
          /\ completed' = completed
     /\ lastEvent'.kind = "completed" =>
          /\ \E c \in inflight : c.id = lastEvent'.n /\ inflight' = inflight \ {c}
          /\ completed' = completed + 1
          /\ haikuHistory'[1].timestamp = completed + 1
          /\ \A i \in 2..Len(haikuHistory') : haikuHistory'[i].timestamp <= completed]_vars

\* a retry obtained a frame while the retry of another trigger was still pending
C7_Witness ==
  /\ lastEvent.kind = "started"
  /\ lastEvent.src = "retry"
  /\ Len(retryTimers) = 1

\* C8: a step of an aborted capture attempt (the trigger whose capture returns
\* null, the retry that finds no frame or a stream that is not ready) leaves
\* the history and the auto-capture arm as they were, sets an error message
\* and leaves processingRef clear.
C8_AbortLeavesArm ==
  [][lastEvent'.kind \in {"captureFailed", "aborted"} =>
       /\ haikuHistory' = haikuHistory
       /\ shouldAutoCapture' = shouldAutoCapture
       /\ errorMessage' # ""
       /\ ~processingRef']_vars

\* the retry of an attempt that the auto-capture timer started has aborted
C8_Witness ==
  /\ lastEvent = Event("aborted", "retry", 0)
  /\ ~shouldAutoCapture
  /\ Len(haikuHistory) > 0

\* C9: after an aborted capture attempt that follows a completed cycle, with
\* the models loaded and the camera streaming, some scheduled trigger is
\* pending: the application does not depend on the Capture Now button to
\* attempt a capture again.
C9_TriggerPendingAfterAbort ==
  ( /\ lastEvent.kind \in {"aborted", "skipped"}
    /\ inflight = {}
    /\ Len(haikuHistory) > 0
    /\ ~modelLoading
    /\ cameraStatus = "stream" )
  => (initialTimer # NoTimer \/ captureTimer # NoTimer \/ retryTimers # <<>>)

\* C10: an initialize call made while the service is ready or loading leaves
\* its handles, its lifecycle state and the load in flight as they are, and
\* the callback of such a call is never the one a load reports progress to.
C10_InitializeIdempotent ==
  [][\A s \in Services :
       /\ ( /\ lastEvent' = Event("initialize", s, calls'[s])
            /\ calls'[s] # calls[s]
            /\ (svc[s].initialized \/ svc[s].loading) )
          => (svc'[s] = svc[s] /\ load'[s] = load[s])
       /\ load'[s].cb \notin late'[s]
       /\ (lastEvent'.kind = "progress" /\ lastEvent'.src = s)
          => lastEvent'.n \notin late'[s]]_vars

\* initialize was called during the load and again once the service was ready
C10_Witness ==
  \E s \in Services :
    /\ lastEvent = Event("initialize", s, 3)
    /\ svc[s].initialized
    /\ late[s] = {2, 3}

\* C11: the inference operation of a service fails with the not-initialized
\* error exactly when isInitialized() is false (before initialization, during
\* the load, after a load that failed or stopped half way) and never when it
\* is true.
C11_NotInitializedIffNotReady ==
  /\ \A s \in Services : NotInitializedError(s) <=> ~isInitialized(s)
  /\ lastEvent.kind \in {"notInitialized", "returned"}
       => (lastEvent.kind = "notInitialized" <=> ~isInitialized(lastEvent.src))

\* the operation was called after a load that stored the processor and then failed
C11_Witness ==
  /\ lastEvent.kind = "notInitialized"
  /\ svc[lastEvent.src].processor # 0
  /\ ~svc[lastEvent.src].loading
  /\ calls[lastEvent.src] > 0

FallbackHaikus == {NightHaiku, MorningHaiku, WaterHaiku, GenericHaiku}

\* a text of exactly three lines, none of them blank
ThreeLines(text) ==
  /\ Len(split(text, "\n")) = 3
  /\ \A i \in 1..3 : trim(split(text, "\n")[i]) # <<>>

\* C13: generateHaiku of a ready language service returns, whatever the model
\* answers or throws, either the first three non-empty lines of the cleaned
\* answer, each of them three characters or longer and free of disallowed
\* characters, or one of the four pre-authored fallback haikus; the result
\* always has exactly three non-empty lines.
C13_GenerateAlwaysThreeLines ==
  lastEvent.kind = "generateHaiku" /\ lastEvent.done =>
    LET lines == NonEmptyLines(removeAuxiliaryContent(lastEvent.args.rawGenerated))
        result == lastEvent.result
    IN /\ ThreeLines(result)
       /\ \/ result \in FallbackHaikus
          \/ /\ ~lastEvent.args.throws
             /\ Len(lines) >= 3
             /\ result = lines[1] \o <<"\n">> \o lines[2] \o <<"\n">> \o lines[3]
             /\ \A i \in 1..3 :
                  /\ length(lines[i]) >= 3
                  /\ \A k \in 1..Len(lines[i]) : lines[i][k] \notin DisallowedTokens

\* the model answered four lines behind a blank one and the first three are returned
C13_Witness ==
  /\ lastEvent.kind = "generateHaiku" /\ lastEvent.done
  /\ lastEvent.result \notin FallbackHaikus
  /\ Len(split(lastEvent.args.rawGenerated, "\n")) = 4
  /\ \E i \in 1..4 : trim(split(lastEvent.args.rawGenerated, "\n")[i]) = <<>>

\* C14: when the cleaned answer has fewer than three non-empty lines, or one
\* of its first three lines has a disallowed character or fewer than three
\* characters, or it contains a reasoning marker, generateHaiku returns the
\* fallback haiku chosen by the description (the night haiku when the
\* description contains "night") and not the model's answer.
C14_InvalidOutputFallsBack ==
  lastEvent.kind = "generateHaiku" /\ lastEvent.done =>
    LET cleaned == removeAuxiliaryContent(lastEvent.args.rawGenerated)
        lines == NonEmptyLines(cleaned)
        description == lastEvent.args.description
        result == lastEvent.result
    IN ( \/ Len(lines) < 3
         \/ \E i \in 1..3 :
              i <= Len(lines) /\
                ( \/ length(lines[i]) < 3
                  \/ \E k \in 1..Len(lines[i]) : lines[i][k] \in DisallowedTokens )
         \/ includes(toLowerCase(cleaned), "okay,")
         \/ includes(toLowerCase(cleaned), "let me") )
       => /\ result = createFallbackHaiku(trimmedDescription(description))
          /\ result # lastEvent.args.rawGenerated
          /\ result # cleaned
          /\ includes(toLowerCase(description), "night") => result = NightHaiku

\* three lines were answered, one of them two characters long, for a description of a night
C14_Witness ==
  /\ lastEvent.kind = "generateHaiku" /\ lastEvent.done
  /\ ~lastEvent.args.throws
  /\ Len(NonEmptyLines(removeAuxiliaryContent(lastEvent.args.rawGenerated))) = 3
  /\ \E i \in 1..3 :
       NonEmptyLines(removeAuxiliaryContent(lastEvent.args.rawGenerated))[i] = <<"ab">>
  /\ lastEvent.result = NightHaiku

\* where a service is in its lifecycle: no initialize call yet, a load in
\* progress, loaded, or not loaded after a load that failed
Lifecycle(service, called) ==
  IF service.initialized THEN "ready"
  ELSE IF service.loading THEN "loading"
  ELSE IF called = 0 THEN "uninitialized"
  ELSE "failed"

\* C20 as stated: the lifecycle of a service only moves uninitialized ->
\* loading -> ready or failed; ready is never left, and failed is never left
\* either, so a later initialize call does not take a failed service back to
\* loading.
C20_FailedIsFinal ==
  [][\A s \in Services :
       LET before == Lifecycle(svc[s], calls[s])
           after == Lifecycle(svc'[s], calls'[s])
       IN \/ after = before
          \/ before = "uninitialized" /\ after = "loading"
          \/ before = "loading" /\ after \in {"ready", "failed"}]_vars

\* C20: the lifecycle of a service moves uninitialized -> loading -> ready or
\* failed; ready is never left and the handles of a ready service never
\* change; a failed service stays failed until initialize is called again,
\* which takes it back to loading.
C20_ReadyIsFinal ==
  [][\A s \in Services :
       LET before == Lifecycle(svc[s], calls[s])
           after == Lifecycle(svc'[s], calls'[s])
       IN /\ \/ after = before
             \/ before = "uninitialized" /\ after = "loading"
             \/ before = "loading" /\ after \in {"ready", "failed"}
             \/ /\ before = "failed" /\ after = "loading"
                /\ lastEvent' = Event("initialize", s, calls'[s])
          /\ before = "ready" => svc'[s] = svc[s]
          /\ (before = "failed" /\ lastEvent' = Event("initialize", s, calls'[s])
                /\ calls'[s] # calls[s])
               => after = "loading"]_vars

\* the second initialize call on a service, made after its load failed, started a load
C20_Witness ==
  \E s \in Services :
    /\ lastEvent = Event("initialize", s, 2)
    /\ Lifecycle(svc[s], calls[s]) = "loading"
    /\ load[s].cb = 2

\* what the vision service can return in the application
VisionResults == {analysisOf[x] : x \in DOMAIN analysisOf}

\* C15: when the load of the language service fails after the vision service
\* was loaded, the application leaves the loading state in stage "ready" with
\* languageModelReady false and the warning set, and stays so; from then on no
\* cycle calls generateHaiku, and every cycle whose vision call returns
\* completes in that step, prepending an entry with the description and the
\* haiku that the vision service returned.
C15_LanguageFailureIsNonFatal ==
  [][/\ lastEvent' = Event("loadFailed", "qwenHaikuService", lastEvent'.n)
          => modelWarning' /\ isInitialized("smolVLMService")'
     /\ modelWarning' =>
          /\ ~languageModelReady' /\ ~isInitialized("qwenHaikuService")'
          /\ ~modelLoading' /\ modelProgress'.stage = "ready"
          /\ \A c \in inflight' : c.pc = "analyzing" /\ ~c.lmr
     /\ modelWarning =>
          /\ modelWarning'
          /\ lastEvent'.kind # "described"
          /\ lastEvent'.kind = "completed" =>
               /\ Len(haikuHistory') = Len(haikuHistory) + 1
               /\ \E result \in VisionResults :
                    /\ haikuHistory'[1].haiku = result.haiku
                    /\ haikuHistory'[1].description = result.description
                    /\ currentHaiku' = result.haiku]_vars

\* two cycles have completed since the load of the language service failed
C15_Witness ==
  /\ modelWarning
  /\ lastEvent.kind = "completed"
  /\ completed >= 2
  /\ Len(haikuHistory) >= 2

\* a text with a line that is not blank
NonBlank(text) == \E i \in 1..Len(split(text, "\n")) : trim(split(text, "\n")[i]) # <<>>

\* C16: after a completed or errored cycle the current haiku and the haiku of
\* every history entry have at least one non-empty line, also when the
\* language service was never loaded.
C16_HaikuNeverBlank ==
  completed > 0 \/ lastEvent.kind = "errored" =>
    /\ NonBlank(currentHaiku)
    /\ \A i \in 1..Len(haikuHistory) : NonBlank(haikuHistory[i].haiku)

\* a cycle completed without the language service on an answer that announced
\* its haiku as "Haiku poem:", and the entry and the current haiku are empty
C16_Witness ==
  /\ lastEvent.kind = "completed"
  /\ modelWarning
  /\ Len(haikuHistory) = 1
  /\ haikuHistory[1].description = <<"a desk by a window.">>
  /\ haikuHistory[1].haiku = <<>>
  /\ currentHaiku = <<>>

C17_VisionFailureIsFatal ==
  [][/\ lastEvent' = Event("loadFailed", "smolVLMService", lastEvent'.n)
          => modelProgress'.stage = "error"
     /\ modelProgress.stage = "error" => modelProgress'.stage = "error"
     /\ modelProgress'.stage = "error" =>
          /\ ~isInitialized("smolVLMService")'
          /\ calls'["qwenHaikuService"] = 0
          /\ started' = 0 /\ inflight' = {}
          /\ initialTimer' = NoTimer /\ captureTimer' = NoTimer /\ retryTimers' = <<>>
          /\ haikuHistory' = <<>> /\ currentHaiku' = <<>>]_vars

\* the vision load failed and the Capture Now button was pressed to no effect
C17_Witness ==
  /\ modelProgress.stage = "error"
  /\ cameraStatus = "stream" /\ video = "ready"
  /\ Screen = "main"
  /\ lastEvent = Event("ignored", "manual", 0)

\* C18: while the WebGPU probe is checking, and from then on when it reports
\* unsupported, initialize is called on neither service, no cycle starts, no
\* timer is armed, and App renders the checking or the unsupported screen.
C18_NoWebGPUNoStart ==
  [][/\ webGPU = "unsupported" => webGPU' = "unsupported"
     /\ webGPU' \in {"checking", "unsupported"} =>
          /\ \A s \in Services : calls'[s] = 0 /\ svc'[s] = NullService
          /\ started' = 0 /\ inflight' = {}
          /\ initialTimer' = NoTimer /\ captureTimer' = NoTimer /\ retryTimers' = <<>>
          /\ haikuHistory' = <<>>
          /\ Screen' = webGPU'
          /\ ~MainInterface']_vars

\* the probe had reported unsupported when the camera stream opened
C18_Witness ==
  /\ webGPU = "unsupported"
  /\ Screen = "unsupported"
  /\ lastEvent = Event("camera", "stream", 0)

\* C21: the initial-capture trigger fires at most once: the step in which it
\* fires leaves no initial timer armed, whether the attempt started a cycle,
\* found no frame or was turned away.
C21_InitialFiresOnce ==
  [][lastEvent'.src = "initial" /\ lastEvent' # lastEvent => initialTimer' = NoTimer]_vars

\* the initial trigger has fired for the second time during the load: the
\* message of its first failed attempt was still up, so nothing was rendered
C21_Witness ==
  /\ lastEvent = Event("captureFailed", "initial", 0)
  /\ modelLoading
  /\ errorMessage = ErrCapture
  /\ initialTimer = NoTimer
  /\ haikuHistory = <<>> /\ currentHaiku = <<>>
  /\ started = 0

\* the initial trigger fires only with an empty history, no haiku and no cycle
\* in progress
C21_InitialFiresOnEmpty ==
  [][lastEvent'.src = "initial" /\ lastEvent' # lastEvent =>
       /\ haikuHistory = <<>> /\ currentHaiku = <<>>
       /\ ~processingRef /\ inflight = {}
       /\ lastEvent'.kind \in {"captureFailed", "started"}]_vars

\* C22: the auto-capture trigger fires when the countdown armed at the
\* completion elapses: at the tick that brings the countdown to 0 with
\* auto-capture still armed, the capture timer is due.
C22_FiresWhenCountdownElapses ==
  ( /\ lastEvent.kind = "countdown"
    /\ shouldAutoCapture
    /\ timeUntilNext = 0
    /\ cameraStatus = "stream"
    /\ inflight = {} )
  => captureTimer = 0

\* the countdown has reached 0 ten seconds after a completion, and the capture
\* timer has its whole interval ahead
C22_Witness ==
  /\ lastEvent.kind = "countdown"
  /\ shouldAutoCapture
  /\ timeUntilNext = 0
  /\ countdownTimer = NoTimer
  /\ captureTimer = CAPTURE_INTERVAL
  /\ completed = 1

\* the capture timer fires only with the camera streaming, auto-capture armed
\* and no cycle running, and at no moment before the countdown has run out
C22_FiresOnlyWhenIdle ==
  [][lastEvent'.src = "auto" /\ lastEvent' # lastEvent =>
       /\ cameraStatus = "stream"
       /\ shouldAutoCapture /\ ~shouldAutoCapture'
       /\ ~processingRef /\ inflight = {}
       /\ timeUntilNext = 0
       /\ lastEvent'.kind \in {"captureFailed", "started"}]_vars

\* C23: the countdown is always between 0 and CAPTURE_INTERVAL; only the end of
\* a cycle and the countdown interval change it: a cycle that completes or
\* errors sets it to CAPTURE_INTERVAL, and the interval, which fires a second
\* after it was set and only while auto-capture is armed and the countdown is
\* above 0, takes exactly 1 off.  No trigger reads it: what the Capture Now
\* button does is decided by the entry guard and the captured frame alone.
C23_CountdownRange ==
  /\ timeUntilNext \in 0..CAPTURE_INTERVAL
  /\ [][/\ timeUntilNext' \in 0..CAPTURE_INTERVAL
        /\ lastEvent'.kind \in {"completed", "errored"} /\ lastEvent' # lastEvent
             => timeUntilNext' = CAPTURE_INTERVAL
        /\ timeUntilNext' # timeUntilNext
             => lastEvent'.kind \in {"completed", "errored", "countdown"}
        /\ lastEvent'.kind = "countdown" =>
             /\ countdownTimer = 0
             /\ shouldAutoCapture /\ shouldAutoCapture'
             /\ timeUntilNext >= 1
             /\ timeUntilNext' = timeUntilNext - 1
        /\ countdownTimer' # NoTimer => shouldAutoCapture' /\ timeUntilNext' > 0
        /\ lastEvent'.src = "manual" /\ lastEvent' # lastEvent =>
             lastEvent'.kind = IF EntryGuard THEN "ignored"
                               ELSE IF captureFrame = "null" THEN "captureFailed"
                               ELSE "started"]_vars

\* the Capture Now button started a cycle in the middle of a countdown
C23_Witness ==
  /\ lastEvent.kind = "started" /\ lastEvent.src = "manual"
  /\ shouldAutoCapture
  /\ timeUntilNext = 4

\* C24: a trigger whose capture returns null schedules exactly one retry,
\* RETRY_DELAY seconds ahead, and nothing else schedules one; the retry runs
\* when those seconds have passed, tests the video element and its readiness
\* again, and in each of its outcomes (a cycle started, still no frame, stream
\* not ready, no video element, a cycle already active) it leaves the pending
\* retries one fewer: it schedules no retry of its own.
C24_OneRetryOnly ==
  [][/\ lastEvent'.kind = "captureFailed" /\ lastEvent' # lastEvent =>
          /\ captureFrame = "null"
          /\ Len(retryTimers') = Len(retryTimers) + 1
          /\ SubSeq(retryTimers', 1, Len(retryTimers)) = retryTimers
          /\ retryTimers'[Len(retryTimers')].rem = RETRY_DELAY
     /\ Len(retryTimers') > Len(retryTimers) => lastEvent'.kind = "captureFailed"
     /\ lastEvent'.src = "retry" /\ lastEvent' # lastEvent =>
          /\ Len(retryTimers') = Len(retryTimers) - 1
          /\ \E i \in 1..Len(retryTimers) :
               /\ retryTimers[i].rem = 0
               /\ retryTimers' = SubSeq(retryTimers, 1, i - 1)
                                   \o SubSeq(retryTimers, i + 1, Len(retryTimers))
          /\ lastEvent'.kind =
               IF processingRef \/ video = "none" THEN "skipped"
               ELSE IF video = "ready" THEN "started"
               ELSE "aborted"
          /\ lastEvent'.kind = "aborted" =>
               errorMessage' = IF video = "notReady" THEN ErrStillInit ELSE ErrRetry]_vars

\* the retry found the element ready but got no frame, and nothing is pending
C24_Witness ==
  /\ lastEvent = Event("aborted", "retry", 0)
  /\ errorMessage = ErrRetry
  /\ retryTimers = <<>>
  /\ initialTimer = NoTimer /\ captureTimer = NoTimer

\* C25: processingRef is set from the moment a trigger is accepted: while the
\* retry of an accepted trigger that found no frame is pending, and while a
\* cycle is in flight, the flag is set.
C25_FlagSetFromAcceptance ==
  (retryTimers # <<>> \/ inflight # {}) => processingRef

\* a trigger was accepted, found no frame and left the flag clear for the wait
C25_Witness ==
  /\ lastEvent.kind = "captureFailed"
  /\ Len(retryTimers) = 1
  /\ retryTimers[1].rem = RETRY_DELAY
  /\ ~processingRef
  /\ inflight = {}

\* C26: processingRef is set exactly while a processFrame call is in flight,
\* the displayed flag processingHaiku equals it, and, the model calls settling,
\* a flag that is set is eventually cleared, whichever way the cycle ends.
C26_FlagEventuallyCleared ==
  /\ [](processingRef <=> inflight # {})
  /\ [](processingHaiku = processingRef)
  /\ \A n \in 1..MaxAnswerCycles :
       (processingRef /\ started = n) ~> (~processingRef /\ ~processingHaiku /\ started = n)

\* the third cycle of a run raised and left both flags clear
C26_Witness ==
  /\ lastEvent = Event("errored", "", MaxAnswerCycles)
  /\ ~processingRef /\ ~processingHaiku
  /\ inflight = {}
  /\ completed = MaxAnswerCycles - 1

\* C27: initialize of the language service is called once, in the step in
\* which initialize of the vision service resolves, and never when the vision
\* load failed; the loading state ends only when the vision load has failed or
\* the language load has settled after a vision load that succeeded, and the
\* main interface and the Capture Now button exist only after that.
C27_SequentialInitialization ==
  LET v == "smolVLMService"
      q == "qwenHaikuService"
      Settled(s) == calls[s] > 0 /\ load[s].pc = "none" /\ ~svc[s].loading
  IN /\ calls[q] > 0 => (isInitialized(v) /\ Settled(v))
     /\ calls[q] <= 1 /\ calls[v] <= 1
     /\ ~modelLoading =>
          /\ Settled(v)
          /\ isInitialized(v) => Settled(q)
          /\ ~isInitialized(v) => (calls[q] = 0 /\ modelProgress.stage = "error")
     /\ (MainInterface \/ Screen = "main") => ~modelLoading
     /\ lastEvent.src = "manual" => ~modelLoading
     /\ languageModelReady => (isInitialized(q) /\ ~modelLoading)

\* the Capture Now button started a cycle after the vision load succeeded and
\* the language load failed
C27_Witness ==
  /\ Screen = "main"
  /\ isInitialized("smolVLMService")
  /\ ~isInitialized("qwenHaikuService")
  /\ calls["qwenHaikuService"] = 1 /\ load["qwenHaikuService"].pc = "none"
  /\ modelWarning
  /\ lastEvent = Event("started", "manual", 1)

\* C28: a cycle whose vision call returns while the language service is ready
\* goes on to generateHaiku, whichever trigger started it: a cycle completes
\* with the haiku of the vision service only when the language service is not
\* ready at that moment.
C28_LanguageUsedWhenReady ==
  [][\A c \in inflight :
       (c.pc = "analyzing" /\ lastEvent' = Event("completed", "", c.id))
         => ~(languageModelReady /\ isInitialized("qwenHaikuService"))]_vars

\* a cycle started by a retry that was scheduled during the load has completed
\* with the haiku of the vision service although the language service is ready
C28_Witness ==
  /\ lastEvent = Event("completed", "", 1)
  /\ languageModelReady
  /\ isInitialized("qwenHaikuService")
  /\ currentHaiku \in VisionHaikus
  /\ currentHaiku \notin LanguageHaikus

\* the text that analyzeImage hands to sanitizeDescription: the lines of the
\* cleaned answer that are longer than ten characters, joined by blanks
DescriptionCandidate(generatedText) ==
  LET all == split(removeChatFormatting(generatedText), "\n")
      lines == SelectSeq([i \in 1..Len(all) |-> trim(all[i])],
                         LAMBDA line : length(line) > 10)
  IN join(lines, " ")

\* a text in which a disallowed word occurs, in either case
HasDisallowed(text) == \E word \in disallowed : includes(toLowerCase(text), word)

\* a text without white space at either end in which all white space is single blanks
Collapsed(text) ==
  /\ text # <<>>
  /\ Head(text) \notin WhiteSpace
  /\ text[Len(text)] \notin WhiteSpace
  /\ \A k \in 1..Len(text) :
       text[k] \in WhiteSpace => (text[k] = " " /\ text[k + 1] \notin WhiteSpace)

C30_DistinctIds ==
  \A i, j \in 1..Len(haikuHistory) :
    i # j => haikuHistory[i].id # haikuHistory[j].id

\* two cycles completed at the same reading of the clock
C30_Witness ==
  /\ lastEvent = Event("completed", "", 2)
  /\ Len(haikuHistory) = 2
  /\ haikuHistory[1].timestamp = haikuHistory[2].timestamp
  /\ haikuHistory[1].id = haikuHistory[2].id

\* the id of an entry is a function of its timestamp alone: two entries share
\* an id exactly when they share a timestamp
C30_IdFollowsTimestamp ==
  \A i, j \in 1..Len(haikuHistory) :
    /\ haikuHistory[i].id = <<"haiku", haikuHistory[i].timestamp>>
    /\ (haikuHistory[i].id = haikuHistory[j].id)
         <=> (haikuHistory[i].timestamp = haikuHistory[j].timestamp)

\* C33: the haiku that generateHaiku falls back to is determined by the
\* description alone: the night haiku when the description holds "night" in
\* either case, else the morning haiku when it holds "morning", else the water
\* haiku when it holds "water", else the generic haiku; a model call that
\* failed and an answer that reasons aloud both give that haiku.
C33_FallbackByKeyword ==
  lastEvent.kind = "generateHaiku" /\ lastEvent.done =>
    LET description == lastEvent.args.description
        Holds(words) == \E k \in 1..Len(description) : description[k] \in words
        expected == IF Holds({"night", "Night"}) THEN NightHaiku
                    ELSE IF Holds({"morning", "Morning"}) THEN MorningHaiku
                    ELSE IF Holds({"water"}) THEN WaterHaiku
                    ELSE GenericHaiku
    IN /\ lastEvent.result \in FallbackHaikus => lastEvent.result = expected
       /\ (lastEvent.args.throws \/ lastEvent.args.rawGenerated = ReasoningText)
            => lastEvent.result = expected

\* the model call failed for a description that holds all three keywords, the
\* night last and capitalised
C33_Witness ==
  /\ lastEvent.kind = "generateHaiku" /\ lastEvent.done
  /\ lastEvent.args.throws
  /\ lastEvent.args.description = <<"water", " ", "Morning", " ", "Night">>
  /\ lastEvent.result = NightHaiku

\* C34: the history changes in completion steps only, and a completion step
\* puts one new entry in front of the entries it found, which keep their
\* content and their order, the oldest leaving when there were
\* MAX_HAIKU_HISTORY; loads, countdown ticks, triggers that are ignored,
\* captures that fail and cycles that end in the catch block leave it as it was.
C34_HistoryChangesAtCompletion ==
  [][/\ haikuHistory' # haikuHistory => lastEvent'.kind = "completed"
     /\ (lastEvent'.kind = "completed" /\ lastEvent' # lastEvent) =>
          /\ Len(haikuHistory') = Min(Len(haikuHistory) + 1, MAX_HAIKU_HISTORY)
          /\ \A i \in 2..Len(haikuHistory') : haikuHistory'[i] = haikuHistory[i - 1]
     /\ lastEvent'.kind \in {"errored", "ignored", "captureFailed", "aborted", "skipped",
                             "countdown", "tick", "progress", "processorLoaded",
                             "modelLoaded", "loadFailed", "webgpu", "camera", "video",
                             "started", "described"}
          => haikuHistory' = haikuHistory]_vars

\* the cycle after ten completions raised and left the full history as it was
C34_Witness ==
  /\ lastEvent = Event("errored", "", MaxLongCycles)
  /\ Len(haikuHistory) = MAX_HAIKU_HISTORY
  /\ haikuHistory[1].timestamp = MAX_HAIKU_HISTORY
  /\ haikuHistory[MAX_HAIKU_HISTORY].timestamp = 1
  /\ currentHaiku = EmergencyHaiku

\* C35: when a call of initialize resolves, the service is initialized: the
\* call that ran the load resolves when the model is loaded, and a call that
\* the guard turned away resolves in the step in which it was made.
C35_ResolvedMeansInitialized ==
  \A s \in Services :
    /\ (lastEvent.kind = "modelLoaded" /\ lastEvent.src = s) => isInitialized(s)
    /\ (lastEvent.kind = "initialize" /\ lastEvent.src = s /\ lastEvent.n \in late[s])
         => isInitialized(s)

\* a second call of initialize has returned while the load of the first is
\* still waiting for the model
C35_Witness ==
  \E s \in Services :
    /\ lastEvent = Event("initialize", s, 2)
    /\ late[s] = {2}
    /\ svc[s].loading /\ ~isInitialized(s)
    /\ load[s] = [pc |-> "model", cb |-> 1]
    /\ NotInitializedError(s)

\* the call that runs the load resolves with the service initialized
C35_LoadingCallResolvesReady ==
  \A s \in Services :
    (lastEvent.kind = "modelLoaded" /\ lastEvent.src = s)
      => (isInitialized(s) /\ ~svc[s].loading /\ ~NotInitializedError(s))

\* C36: at any time at most one capture-retry timer is pending.
C36_AtMostOneRetryPending == Len(retryTimers) <= 1

\* a second trigger found no frame while the retry of the first was pending:
\* two retry timers wait, the first closer to firing than the second
C36_Witness ==
  /\ lastEvent.kind = "captureFailed"
  /\ Len(retryTimers) = 2
  /\ retryTimers[1].rem < retryTimers[2].rem
  /\ retryTimers[2].rem = RETRY_DELAY
  /\ ~processingRef
  /\ errorMessage = ErrCapture

\* C37: a retry timer that fires while a cycle is active (processingRef set)
\* starts no cycle, changes neither the error message nor the history, the
\* current haiku or the auto-capture arm, leaves the other timers as they were
\* and is removed without a successor.
C37_RetryDuringCycleIsInert ==
  [][(processingRef /\ retryTimers' # retryTimers /\ lastEvent'.kind # "tick") =>
       /\ lastEvent' = Event("skipped", "retry", 0)
       /\ started' = started
       /\ inflight' = inflight
       /\ processingRef'
       /\ processingHaiku' = processingHaiku
       /\ errorMessage' = errorMessage
       /\ haikuHistory' = haikuHistory
       /\ currentHaiku' = currentHaiku
       /\ shouldAutoCapture' = shouldAutoCapture
       /\ timeUntilNext' = timeUntilNext
       /\ <<initialTimer', captureTimer', countdownTimer'>>
            = <<initialTimer, captureTimer, countdownTimer>>
       /\ \E i \in 1..Len(retryTimers) :
            /\ retryTimers[i].rem = 0
            /\ retryTimers' = SubSeq(retryTimers, 1, i - 1)
                                \o SubSeq(retryTimers, i + 1, Len(retryTimers))]_vars

\* a retry fired during the vision call of a cycle and was dropped: the cycle
\* is still the only one in flight and no retry is pending
C37_Witness ==
  /\ lastEvent = Event("skipped", "retry", 0)
  /\ processingRef
  /\ processingHaiku
  /\ Cardinality(inflight) = 1
  /\ \A c \in inflight : c.pc = "analyzing"
  /\ started = 1
  /\ retryTimers = <<>>
  /\ errorMessage = ""

\* C38: the capture timer never carries over a cycle.  No capture timer is
\* pending while a cycle runs; the step that starts a cycle cancels it; the step
\* that ends a cycle arms one with the full CAPTURE_INTERVAL; the timer is
\* otherwise only re-armed in full, cancelled, or run down by one per second;
\* and an auto-capture trigger happens only when it has run down to 0.  An
\* auto-capture cycle therefore starts at least CAPTURE_INTERVAL seconds after
\* the latest end of a cycle.
C38_AutoCaptureWaitsFullInterval ==
  /\ processingRef => captureTimer = NoTimer
  /\ [][/\ processingRef' => captureTimer' = NoTimer
        /\ (lastEvent'.kind = "started" /\ lastEvent' # lastEvent)
             => captureTimer' = NoTimer
        /\ (lastEvent'.kind \in {"completed", "errored"} /\ lastEvent' # lastEvent)
             => captureTimer' = CAPTURE_INTERVAL
        /\ captureTimer' # captureTimer =>
             \/ captureTimer' \in {NoTimer, CAPTURE_INTERVAL}
             \/ lastEvent'.kind = "tick" /\ captureTimer' = captureTimer - 1
        /\ (lastEvent'.src = "auto" /\ lastEvent' # lastEvent)
             => /\ captureTimer = 0
                /\ ~InitialCaptureDue(haikuHistory, currentHaiku, processingRef)]_vars

\* a manual cycle has started some seconds into the wait after the first
\* completion, with auto-capture still armed: no capture timer is pending
C38_Witness ==
  /\ lastEvent = Event("started", "manual", 2)
  /\ completed = 1
  /\ shouldAutoCapture
  /\ timeUntilNext \in 1..(CAPTURE_INTERVAL - 1)
  /\ processingRef
  /\ captureTimer = NoTimer
  /\ initialTimer = NoTimer

\* C39: once modelLoading is false with the vision service initialized, the
\* warning is set exactly when languageModelReady is false, languageModelReady
\* implies that the language service is initialized, and from then on neither
\* the warning nor languageModelReady nor modelLoading changes.
C39_WarningIffLanguageMissing ==
  /\ (~modelLoading /\ isInitialized("smolVLMService")) =>
       /\ modelWarning <=> ~languageModelReady
       /\ languageModelReady => isInitialized("qwenHaikuService")
  /\ [][/\ (~modelLoading' /\ isInitialized("smolVLMService")') =>
             /\ modelWarning' <=> ~languageModelReady'
             /\ languageModelReady' => isInitialized("qwenHaikuService")'
        /\ (~modelLoading /\ isInitialized("smolVLMService")) =>
          /\ modelWarning' = modelWarning
          /\ languageModelReady' = languageModelReady
          /\ ~modelLoading'
          /\ isInitialized("smolVLMService")'
          /\ isInitialized("qwenHaikuService")' = isInitialized("qwenHaikuService")]_vars

\* both services were loaded and a cycle has completed since: no warning, and
\* the language service is still reported ready
C39_Witness ==
  /\ ~modelLoading
  /\ isInitialized("smolVLMService")
  /\ isInitialized("qwenHaikuService")
  /\ languageModelReady
  /\ ~modelWarning
  /\ modelProgress = Progress("ready", "finalizing")
  /\ lastEvent.kind = "completed"
  /\ completed = 1

\* the status object of useCamera in each of its three values: the initial
\* state, the one set when getUserMedia resolved, the one set when it rejected
\* (stream and error are TRUE when the field is not null)
CameraStatusFields(status) ==
  CASE status = "loading" -> [stream |-> FALSE, error |-> FALSE, loading |-> TRUE]
    [] status = "stream"  -> [stream |-> TRUE,  error |-> FALSE, loading |-> FALSE]
    [] status = "error"   -> [stream |-> FALSE, error |-> TRUE,  loading |-> FALSE]

\* C40: the camera status starts as loading and changes at most once, from
\* loading to a state with loading false and either a stream and no error or
\* an error and no stream; the initial-capture timer and the capture timer are
\* pending only while a stream is present.
C40_CameraStatusFinal ==
  /\ cameraStatus = "loading" /\ initialTimer = NoTimer /\ captureTimer = NoTimer
  /\ [][/\ cameraStatus' # cameraStatus =>
             /\ CameraStatusFields(cameraStatus).loading
             /\ ~CameraStatusFields(cameraStatus').loading
             /\ lastEvent' = Event("camera", cameraStatus', 0)
        /\ LET status == CameraStatusFields(cameraStatus')
           IN /\ status.loading => ~status.stream /\ ~status.error
              /\ ~status.loading => (status.stream <=> ~status.error)
              /\ (initialTimer' # NoTimer \/ captureTimer' # NoTimer) =>
                   status.stream /\ ~status.error /\ ~status.loading]_vars

\* the camera request resolved with a stream after the vision service was
\* loaded, and the render of the new status armed the initial-capture timer
C40_Witness ==
  /\ lastEvent = Event("camera", "stream", 0)
  /\ cameraStatus = "stream"
  /\ isInitialized("smolVLMService")
  /\ initialTimer = INITIAL_DELAY
  /\ captureTimer = NoTimer
  /\ started = 0

\* ------------------------------------------------------------------ teardown
\* The component is unmounted.  The cleanups of the effects run: useCamera
\* clears its mounted flag and stops the tracks of the stream it holds, the
\* auto-capture effect clears its timer, the countdown effect its interval, and
\* VideoCapture takes the stream off the video element, which puts the
\* element's readyState back to HAVE_NOTHING.  The external videoRef, which
\* VideoCapture assigned by hand, keeps pointing to the element.  The timeout of
\* a retry has no handle and no cleanup.
Unmount ==
  /\ mounted
  /\ mounted' = FALSE
  /\ tracks' = IF tracks = "live" THEN "stopped" ELSE tracks
  /\ video' = IF video = "none" THEN "none" ELSE "notReady"
  /\ initialTimer' = NoTimer
  /\ captureTimer' = NoTimer
  /\ countdownTimer' = NoTimer
  /\ retryTimers' = retryTimers
  /\ lastEvent' = Event("unmount", "", 0)
  /\ UNCHANGED <<svcVars, webGPU, cameraStatus, cameraRequest, initVars, cycleVars, bookVars>>

\* an initCamera that keeps a stream that arrives after the unmount
UnmountedCameraResolveM1(r) ==
  /\ ~mounted
  /\ cameraRequest = "pending"
  /\ cameraRequest' = IF r = "stream" THEN "resolved" ELSE "rejected"
  /\ tracks' = IF r = "stream" THEN "live" ELSE tracks
  /\ lastEvent' = Event("camera", r, 1)
  /\ UNCHANGED <<svcVars, webGPU, cameraStatus, mounted, video, initVars, cycleVars,
                 timerVars, bookVars>>

\* getUserMedia settles after the unmount: initCamera stops the tracks of the
\* stream at once and returns, and its catch does nothing; the status is not set
UnmountedCameraResolve(r) ==
  /\ ~mounted
  /\ cameraRequest = "pending"
  /\ cameraRequest' = IF r = "stream" THEN "resolved" ELSE "rejected"
  /\ tracks' = IF r = "stream" THEN "stopped" ELSE tracks
  /\ lastEvent' = Event("camera", r, 1)
  /\ UNCHANGED <<svcVars, webGPU, cameraStatus, mounted, video, initVars, cycleVars,
                 timerVars, bookVars>>

\* A load settles after the unmount.  The service changes as in the mounted
\* case and initModel runs on (after the vision service it calls
\* qwenHaikuService.initialize); the state setters it calls belong to an
\* unmounted component and change nothing.
UnmountedLoaded(s) ==
  /\ ~mounted
  /\ load[s].pc = "model"
  /\ IF s = "smolVLMService"
     THEN LET q == "qwenHaikuService"
              cb == calls[q] + 1
          IN /\ svc' = [svc EXCEPT ![s] = ModelLoadedSvc(s), ![q] = InitializeSvc(q, cb)]
             /\ load' = [load EXCEPT ![s] = NoLoad, ![q] = InitializeLoad(q, cb)]
             /\ calls' = [calls EXCEPT ![q] = cb]
             /\ late' = [late EXCEPT ![q] =
                           IF svc[q].initialized \/ svc[q].loading THEN @ \cup {cb} ELSE @]
     ELSE /\ svc' = [svc EXCEPT ![s] = ModelLoadedSvc(s)]
          /\ load' = [load EXCEPT ![s] = NoLoad]
          /\ UNCHANGED <<calls, late>>
  /\ lastEvent' = Event("modelLoaded", s, load[s].cb)
  /\ UNCHANGED <<hookVars, initVars, cycleVars, timerVars, bookVars>>

UnmountedLoadFailed(s) ==
  /\ ~mounted
  /\ load[s].pc # "none"
  /\ svc' = [svc EXCEPT ![s] = LoadFailedSvc(s)]
  /\ load' = [load EXCEPT ![s] = NoLoad]
  /\ lastEvent' = Event("loadFailed", s, load[s].cb)
  /\ UNCHANGED <<calls, late, hookVars, initVars, cycleVars, timerVars, bookVars>>

\* The vision call of a cycle settles after the unmount.  processFrame runs on
\* without a test: it calls the language service when the cycle uses it, and
\* otherwise ends, its finally clearing processingRef.  Every state setter on
\* its way belongs to an unmounted component and changes nothing.
UnmountedAnalyzeReturn(c, outcome) ==
  /\ ~mounted
  /\ c \in inflight
  /\ c.pc = "analyzing"
  /\ IF outcome = "described" THEN faults' = faults
     ELSE faults < MaxFaults /\ faults' = faults + 1
  /\ IF outcome # "raises" /\ UseLanguageService(c)
     THEN /\ inflight' = (inflight \ {c}) \cup {[c EXCEPT !.pc = "composing"]}
          /\ processingRef' = processingRef
          /\ lastEvent' = Event("described", "", c.id)
     ELSE /\ inflight' = inflight \ {c}
          /\ processingRef' = FALSE
          /\ lastEvent' = Event("discarded", "", c.id)
  /\ UNCHANGED <<svcVars, hookVars, initVars, currentHaiku, haikuHistory, shouldAutoCapture,
                 timeUntilNext, errorMessage, processingHaiku, timerVars, started, completed>>

\* the language call of a cycle settles after the unmount
UnmountedComposeReturn(c) ==
  /\ ~mounted
  /\ c \in inflight
  /\ c.pc = "composing"
  /\ inflight' = inflight \ {c}
  /\ processingRef' = FALSE
  /\ lastEvent' = Event("discarded", "", c.id)
  /\ UNCHANGED <<svcVars, hookVars, initVars, currentHaiku, haikuHistory, shouldAutoCapture,
                 timeUntilNext, errorMessage, processingHaiku, timerVars, started, completed,
                 faults>>

\* The timeout of a retry fires after the unmount.  The callback reads
\* processingRef and videoRef as before; the video element has no stream, so
\* where the callback gets past its guard it finds the element not ready, and
\* its setErrorMessage changes nothing.
UnmountedRetryFire(i) ==
  /\ ~mounted
  /\ retryTimers[i].rem = 0
  /\ retryTimers' = SubSeq(retryTimers, 1, i - 1) \o SubSeq(retryTimers, i + 1, Len(retryTimers))
  /\ video # "ready" /\ video # "noFrame"
  /\ lastEvent' = IF RetryGuard THEN Event("aborted", "retry", 1)
                  ELSE Event("skipped", "retry", 1)
  /\ UNCHANGED <<svcVars, hookVars, initVars, cycleVars, initialTimer, captureTimer,
                 countdownTimer, bookVars>>

\* the cycles of a run with an unmount
MaxTeardownCycles == 2

NextTeardown ==
  \/ mounted /\ Environment
  \/ \E s \in Services : ~mounted /\ ProcessorLoaded(s)
  \/ mounted /\ \E v \in {"noFrame", "ready"} : VideoAttach(v)
  \/ mounted /\ ManualCapture(MaxTeardownCycles)
  \/ mounted /\ InitialFire(MaxTeardownCycles)
  \/ mounted /\ CaptureFire(MaxTeardownCycles)
  \/ mounted /\ \E i \in 1..Len(retryTimers) : RetryFire(i, MaxTeardownCycles)
  \/ mounted /\ CountdownTick
  \/ mounted /\ \E c \in inflight, o \in {"described", "raises"} : AnalyzeReturn(c, o)
  \/ mounted /\ \E c \in inflight : ComposeReturn(c, "generated")
  \/ Tick
  \/ Unmount
  \/ \E r \in {"stream", "error"} : UnmountedCameraResolve(r)
  \/ \E s \in Services : UnmountedLoaded(s)
  \/ \E s \in Services : UnmountedLoadFailed(s)
  \/ \E c \in inflight, o \in {"described", "raises"} : UnmountedAnalyzeReturn(c, o)
  \/ \E c \in inflight : UnmountedComposeReturn(c)
  \/ \E i \in 1..Len(retryTimers) : UnmountedRetryFire(i)

SpecTeardown == Init /\ [][NextTeardown]_vars


\* C31: after the unmount no timer is pending (initial-capture, capture,
\* countdown and retry), no cycle starts, and neither the history nor the
\* current haiku nor the auto-capture arm changes.
C31_TeardownCancelsEverything ==
  [][/\ ~mounted' =>
          /\ initialTimer' = NoTimer
          /\ captureTimer' = NoTimer
          /\ countdownTimer' = NoTimer
          /\ retryTimers' = <<>>
     /\ ~mounted =>
          /\ started' = started
          /\ haikuHistory' = haikuHistory
          /\ currentHaiku' = currentHaiku
          /\ shouldAutoCapture' = shouldAutoCapture]_vars

\* the component was unmounted within RETRY_DELAY of a capture that got no
\* frame: the timeout of the retry is still pending
C31_Witness ==
  /\ lastEvent = Event("unmount", "", 0)
  /\ ~mounted
  /\ Len(retryTimers) = 1
  /\ retryTimers[1].rem > 0
  /\ errorMessage = ErrCapture
  /\ initialTimer = NoTimer /\ captureTimer = NoTimer /\ countdownTimer = NoTimer

\* after the unmount the timers of the effects are gone, no retry timer is
\* added, no cycle starts, and the state of App stays as the unmount left it,
\* also when a model call that was in flight settles
C31_StateKeptAfterTeardown ==
  [][/\ ~mounted' =>
          /\ initialTimer' = NoTimer
          /\ captureTimer' = NoTimer
          /\ countdownTimer' = NoTimer
     /\ ~mounted =>
          /\ ~mounted'
          /\ Len(retryTimers') <= Len(retryTimers)
          /\ started' = started
          /\ completed' = completed
          /\ \A c \in inflight' : \E b \in inflight : b.id = c.id
          /\ <<cameraStatus', initVars', currentHaiku', haikuHistory', shouldAutoCapture',
               timeUntilNext', errorMessage', processingHaiku'>>
               = <<cameraStatus, initVars, currentHaiku, haikuHistory, shouldAutoCapture,
                   timeUntilNext, errorMessage, processingHaiku>>]_vars

\* the vision call of a cycle settled after the unmount and was dropped
C31_DiscardedAfterTeardown ==
  /\ ~mounted
  /\ lastEvent.kind = "discarded"
  /\ started = 1 /\ completed = 0
  /\ inflight = {}
  /\ haikuHistory = <<>> /\ currentHaiku = <<>>
  /\ processingHaiku /\ ~processingRef

\* C32: the tracks of the camera stream are live exactly while the component
\* is mounted with a stream.  The unmount stops the tracks of a stream that was
\* obtained before it; a request that resolves after the unmount has its tracks
\* stopped in the same step and leaves the camera status as it was; and tracks
\* are stopped by these two steps only.
C32_TracksReleasedOnTeardown ==
  [][/\ mounted' => tracks' = (IF cameraStatus' = "stream" THEN "live" ELSE "none")
     /\ ~mounted' => tracks' # "live"
     /\ (mounted /\ ~mounted') =>
          tracks' = (IF cameraStatus = "stream" THEN "stopped" ELSE "none")
     /\ ~mounted =>
          /\ cameraStatus' = cameraStatus
          /\ (cameraRequest = "pending" /\ cameraRequest' = "resolved") => tracks' = "stopped"
          /\ cameraRequest' = cameraRequest => tracks' = tracks
     /\ tracks' # tracks /\ tracks' = "stopped" =>
          \/ lastEvent' = Event("unmount", "", 0)
          \/ ~mounted /\ lastEvent' = Event("camera", "stream", 1)]_vars

\* the camera request resolved after the unmount: the tracks of its stream
\* are stopped and the status still says loading
C32_Witness ==
  /\ lastEvent = Event("camera", "stream", 1)
  /\ ~mounted
  /\ cameraRequest = "resolved"
  /\ tracks = "stopped"
  /\ cameraStatus = "loading"

====
